---- MODULE Spec2Model ----
(***************************************************************************)
(* A model of borrg: the borg event decoder (src/src/backend/borg.rs), the *)
(* concurrent job runner (src/src/cli/run.rs), the repository address     *)
(* parser and formatter (src/src/borrg/repo.rs), the compression values    *)
(* (src/src/borrg.rs) and the configuration (src/src/cli/config.rs).       *)
(*                                                                         *)
(* The specifications share the variables of the module:                   *)
(*   Spec      the Events iterator reading lines of a borg process          *)
(*   RunSpec   run(): worker threads, the mpsc channel, the consumer loop   *)
(*   RepoSpec  Repo::from_str, Display for Repo and the re-parse            *)
(*   CompSpec  Compression::parse and Display for Compression               *)
(*   ConfigSpec  templates, BackupConfig::resolve and the conversion to     *)
(*             (Repo, Archive)                                              *)
(*   MaterializeSpec  the conversions of any BackupConfig                   *)
(***************************************************************************)
EXTENDS Integers, Sequences, FiniteSets, TLC

VARIABLES
    \* ---- Events iterator (backend/borg.rs) ----
    inp,        \* what Lines::next() has returned so far, in order (lines and read errors)
    out,        \* the events Events::next() has returned so far, in order
    iter,       \* "active" | "ended" (next() returned None) | "panicked"
    \* ---- Repo parse / format (borrg/repo.rs) ----
    rs,         \* the address string given to Repo::from_str
    rpc,        \* "input" | "rejected" | "parsed" | "formatted" | "reparsed"
    parsed,     \* the result of Repo::from_str(rs)
    text,       \* the parsed Repo formatted by Display
    reparsed,   \* the result of Repo::from_str(text)
    \* ---- run() (cli/run.rs) ----
    njobs,      \* config.backups.len()
    mainpc,     \* "spawn" | "recv" | "join" | "done" | "panicked"
    handles,    \* the vector of (handle, pb, prefix), one entry per spawned worker
    wstat,      \* per worker thread: "unspawned" | "started" | "streaming" |
                \*   "failed" (logged the error, returned) | "finished" | "panicked"
    nread,      \* per job, how many items its Events iterator has read
    chan,       \* the mpsc channel: messages sent and not yet received
    nrecv,      \* per index, how many messages the consumer has received
    last,       \* the message the consumer received last
    shown,      \* the line the consumer printed for it, if any
    sendFailed, \* whether some tx.send() has returned an error
    joined,     \* how many handle.join() calls have returned (Ok or Err)
    \* ---- Compression (borrg.rs, cli/config.rs) ----
    cin,        \* the toml value given to Compression::parse
    comp,       \* the result of Compression::parse(cin)
    ctext,      \* the parsed Compression formatted by Display
    \* ---- configuration (cli/config.rs) ----
    cpc,        \* "templates" | "resolve" | "convert" | "done" | "failed"
    templates,  \* the registered templates, in order: <<name, BackupConfig>>
    orig,       \* the job as BackupConfig::parse returned it
    job,        \* the job being resolved (self in resolve)
    before,     \* the job before the last resolve_with
    chain,      \* the names of the templates merged so far, in order
    cresult,    \* the result of resolve(..)?.try_into()
    \* ---- loading the configuration file (cli/config.rs, main.rs) ----
    doc,        \* the configuration file: whether it reads, and its toml value
    loaded,     \* the result of Config::load
    report,     \* the line main prints to stderr before exit(1), if any
    started,    \* the jobs the run command was given, once it is called
    \* ---- one call of the backend (backend/borg.rs) ----
    call,       \* the arguments of init_repository, create_archive or repo_info
    bpc,        \* "idle" | "assemble" | "spawn" | "stream" | "returned"
    cmd,        \* the Command assembled: its arguments and environment
    child,      \* the process: not spawned, running or exited; whether waited for
    seen,       \* how many events on_update was called with
    ret,        \* what the call returned, once it has
    \* ---- the init command (cli/init.rs) ----
    icli        \* its position, the repository, the configured jobs and the file

decodeVars == <<inp, out, iter>>
repoVars == <<rs, rpc, parsed, text, reparsed>>

runVars == <<njobs, mainpc, handles, wstat, nread, chan, nrecv, last, shown,
             sendFailed, joined>>

compVars == <<cin, comp, ctext>>
cfgVars == <<cpc, templates, orig, job, before, chain, cresult>>
loadVars == <<doc, loaded, report, started>>
backendVars == <<call, bpc, cmd, child, seen, ret>>
initVars == <<icli>>

vars == <<decodeVars, repoVars, runVars, compVars, cfgVars, loadVars, backendVars, initVars>>

\* what each specification leaves alone
notDecode == <<repoVars, runVars, compVars, cfgVars, loadVars, backendVars, initVars>>
notRepo == <<decodeVars, runVars, compVars, cfgVars, loadVars, backendVars, initVars>>
notRun == <<decodeVars, repoVars, compVars, cfgVars, loadVars, backendVars, initVars>>
notComp == <<decodeVars, repoVars, runVars, cfgVars, loadVars, backendVars, initVars>>
notCfg == <<decodeVars, repoVars, runVars, compVars, loadVars, backendVars, initVars>>
notLoad == <<decodeVars, repoVars, runVars, compVars, cfgVars, backendVars, initVars>>
notBackend == <<decodeVars, repoVars, runVars, compVars, cfgVars, loadVars, initVars>>
notInit == <<decodeVars, repoVars, runVars, compVars, cfgVars, loadVars>>

\* the parts a specification does not exercise stay as constructed
DecodeIdle == inp = <<>> /\ out = <<>> /\ iter = "idle"
RepoIdle ==
    rs = <<>> /\ rpc = "idle" /\ parsed = [some |-> FALSE]
        /\ text = <<>> /\ reparsed = [some |-> FALSE]
RunIdle ==
    /\ njobs = 0 /\ mainpc = "idle" /\ handles = <<>> /\ wstat = <<>>
    /\ nread = <<>> /\ chan = <<>> /\ nrecv = <<>> /\ last = [some |-> FALSE]
    /\ shown = [some |-> FALSE] /\ sendFailed = FALSE /\ joined = 0
CompIdle == cin = [some |-> FALSE] /\ comp = [some |-> FALSE] /\ ctext = [some |-> FALSE]
CfgIdle ==
    /\ cpc = "idle" /\ templates = <<>> /\ orig = [some |-> FALSE]
    /\ job = [some |-> FALSE] /\ before = [some |-> FALSE] /\ chain = <<>>
    /\ cresult = [some |-> FALSE]
LoadIdle ==
    /\ doc = [some |-> FALSE] /\ loaded = [some |-> FALSE]
    /\ report = [some |-> FALSE] /\ started = [some |-> FALSE]
NoChild == [st |-> "none", status |-> 0, waited |-> FALSE, stdout |-> [some |-> FALSE]]
InitIdle == icli = [some |-> FALSE]
BackendIdle ==
    /\ call = [some |-> FALSE] /\ bpc = "idle" /\ cmd = [some |-> FALSE]
    /\ child = NoChild /\ seen = 0 /\ ret = [some |-> FALSE]

\* ------------------------------------------------------------------------
\* Option<T>
\* ------------------------------------------------------------------------
None == [some |-> FALSE]
Some(x) == [some |-> TRUE, val |-> x]
and_then(o, F(_)) == IF o.some THEN F(o.val) ELSE None
map(o, F(_)) == IF o.some THEN Some(F(o.val)) ELSE None
unwrap_or(o, d) == IF o.some THEN o.val ELSE d

\* ------------------------------------------------------------------------
\* serde_json::Value.  A number keeps the class that decides as_u64 and
\* Duration::from_secs_f64: "nat" (a non-negative integer below 2^64),
\* "neg" (negative), "frac" (non-negative, with a fraction), "huge" (a
\* non-negative number beyond what a Duration holds).
\* ------------------------------------------------------------------------
JStr(s) == [t |-> "str", s |-> s]
JNum(cls, n) == [t |-> "num", cls |-> cls, n |-> n]
JBool(b) == [t |-> "bool", b |-> b]
JObj(f) == [t |-> "obj", f |-> f]

\* Value::get(key): Some only on an object that holds the key
get(value, key) ==
    IF value.t = "obj" /\ key \in DOMAIN value.f THEN Some(value.f[key]) ELSE None

as_str(v) == IF v.t = "str" THEN Some(v.s) ELSE None
as_u64(v) == IF v.t = "num" /\ v.cls = "nat" THEN Some(v.n) ELSE None
as_f64(v) == IF v.t = "num" THEN Some(v) ELSE None
as_bool(v) == IF v.t = "bool" THEN Some(v.b) ELSE None

\* A line of the stream: its text is either not JSON or the text of a value
NotJson == [t |-> "invalid"]
Line(v) == [json |-> v]

\* serde_json::from_str(&line)
from_str(line) ==
    IF line.json = NotJson THEN [ok |-> FALSE] ELSE [ok |-> TRUE, value |-> line.json]

\* ------------------------------------------------------------------------
\* Event::try_from (borg.rs 11-149): the field closures
\* ------------------------------------------------------------------------
PathBuf_from(s) == s

\* Duration::from_secs_f64 panics on a negative, overflowing or non-finite
\* argument; JSON has no non-finite numbers.
from_secs_f64_panics(t) == t.cls \in {"neg", "huge"}

\* the closure `time` panics inside from_secs_f64 for these values
time_panics(value) ==
    LET t == and_then(get(value, "time"), as_f64)
    IN  t.some /\ from_secs_f64_panics(t.val)

\* UNIX_EPOCH.checked_add(duration): the offset from the epoch, in seconds
checked_add_epoch(t) == Some([epoch_plus |-> t.n, frac |-> t.cls = "frac"])

time(value) == and_then(and_then(get(value, "time"), as_f64), checked_add_epoch)

nfiles(value) == and_then(get(value, "nfiles"), as_u64)
compressed_size(value) == and_then(get(value, "compressed_size"), as_u64)
deduplicated_size(value) == and_then(get(value, "deduplicated_size"), as_u64)
original_size(value) == and_then(get(value, "original_size"), as_u64)
path(value) == map(and_then(get(value, "path"), as_str), PathBuf_from)
message(value) == and_then(get(value, "message"), as_str)
finished(value) == and_then(get(value, "finished"), as_bool)
msgid(value) == and_then(get(value, "msgid"), as_str)
operation(value) == and_then(get(value, "operation"), as_u64)

level_of(l) ==
    CASE l = "debug" -> Some("Debug")
      [] l = "info" -> Some("Info")
      [] l = "warning" -> Some("Warn")
      [] l = "error" -> Some("Error")
      [] OTHER -> None

levelname_of(l) ==
    CASE l = "DEBUG" -> Some("Debug")
      [] l = "INFO" -> Some("Info")
      [] l = "WARNING" -> Some("Warn")
      [] l = "ERROR" -> Some("Error")
      [] OTHER -> None

level(value) ==
    LET a == and_then(and_then(get(value, "level"), as_str), level_of)
        b == and_then(and_then(get(value, "levelname"), as_str), levelname_of)
    IN  IF a.some THEN a ELSE IF b.some THEN b ELSE None

name(value) == and_then(get(value, "name"), as_str)
status(value) == and_then(get(value, "status"), as_str)
current(value) == and_then(get(value, "current"), as_u64)
total(value) == and_then(get(value, "total"), as_u64)

\* ------------------------------------------------------------------------
\* Event::try_from: the result and the arms of the match on the type tag
\* ------------------------------------------------------------------------
Ok(e) == [tag |-> "Ok", event |-> e]
Err(m) == [tag |-> "Err", msg |-> m]
Panic == [tag |-> "Panic"]

\* SystemTime::now(), the fallback of progress_percent
Now == [now |-> TRUE]

ArchiveProgressArm(value) ==
    IF time_panics(value) THEN Panic
    ELSE Ok([kind |-> "ArchiveProgress",
             nfiles |-> unwrap_or(nfiles(value), 0),
             compressed_size |-> unwrap_or(compressed_size(value), 0),
             deduplicated_size |-> unwrap_or(deduplicated_size(value), 0),
             original_size |-> unwrap_or(original_size(value), 0),
             path |-> unwrap_or(path(value), ""),
             time |-> time(value)])

ProgressMessageArm(value) ==
    IF time_panics(value) THEN Panic
    ELSE Ok([kind |-> "ProgressMessage",
             message |-> message(value),
             finished |-> finished(value),
             msgid |-> msgid(value),
             operation |-> operation(value),
             time |-> time(value)])

LogMessageArm_required(value) ==
    IF ~message(value).some THEN Err("no message")
    ELSE IF time_panics(value) THEN Panic
    ELSE Ok([kind |-> "LogMessage",
             name |-> name(value),
             level |-> level(value),
             message |-> message(value).val,
             msgid |-> msgid(value),
             time |-> time(value)])

LogMessageArm(value) ==
    IF time_panics(value) THEN Panic
    ELSE Ok([kind |-> "LogMessage",
             name |-> name(value),
             level |-> level(value),
             message |-> unwrap_or(message(value), ""),
             msgid |-> msgid(value),
             time |-> time(value)])

FileStatusArm(value) ==
    Ok([kind |-> "FileStatus",
        path |-> unwrap_or(path(value), ""),
        status |-> unwrap_or(status(value), "")])

ProgressPercentArm(value) ==
    IF time_panics(value) THEN Panic
    ELSE Ok([kind |-> "ProgressPercent",
             current |-> unwrap_or(current(value), 0),
             finished |-> unwrap_or(finished(value), FALSE),
             message |-> unwrap_or(message(value), ""),
             msgid |-> unwrap_or(msgid(value), ""),
             operation |-> unwrap_or(operation(value), 0),
             time |-> IF time(value).some THEN time(value).val ELSE Now,
             total |-> unwrap_or(total(value), 0)])

\* Option::unwrap on None panics
PromptArm(value) ==
    IF ~message(value).some \/ ~msgid(value).some THEN Panic
    ELSE Ok([kind |-> "Prompt",
             prompt |-> message(value).val,
             msgid |-> msgid(value).val])

Event_try_from(value) ==
    LET ty == get(value, "type")
    IN  IF ~(ty.some /\ ty.val.t = "str") THEN Err("no type")
        ELSE CASE ty.val.s = "archive_progress" -> ArchiveProgressArm(value)
               [] ty.val.s = "progress_message" -> ProgressMessageArm(value)
               [] ty.val.s = "log_message" -> LogMessageArm(value)
               [] ty.val.s = "file_status" -> FileStatusArm(value)
               [] ty.val.s = "progress_percent" -> ProgressPercentArm(value)
               [] ty.val.s = "question_prompt" -> PromptArm(value)
               [] OTHER -> Err("Unknown event type")

\* ------------------------------------------------------------------------
\* Events::next (borg.rs 163-197).  `read` is what self.lines.next()
\* returned: None at the end of the stream, Some(Err(e)) or Some(Ok(line)).
\* ------------------------------------------------------------------------
Eof == [read |-> "None"]
ReadErr == [read |-> "Err", err |-> "io"]
ReadOk(line) == [read |-> "Ok", line |-> line]

Other(line) == [kind |-> "Other", line |-> line]
ErrorEvent(e) == [kind |-> "Error", err |-> e]

Events_next(read) ==
    IF read.read = "None" THEN [tag |-> "None"]
    ELSE IF read.read = "Err" THEN [tag |-> "Some", event |-> ErrorEvent(read.err)]
    ELSE LET json == from_str(read.line)
         IN  IF ~json.ok THEN [tag |-> "Some", event |-> Other(read.line)]
             ELSE LET r == Event_try_from(json.value)
                  IN  CASE r.tag = "Ok" -> [tag |-> "Some", event |-> r.event]
                        [] r.tag = "Err" -> [tag |-> "Some", event |-> Other(read.line)]
                        [] OTHER -> [tag |-> "Panic"]

\* ------------------------------------------------------------------------
\* The lines the model feeds to the decoder
\* ------------------------------------------------------------------------
MaxLines == 2

KnownTypes == {"archive_progress", "progress_message", "log_message",
               "file_status", "progress_percent", "question_prompt"}

Keys == {"type", "time", "nfiles", "compressed_size", "deduplicated_size",
         "original_size", "path", "message", "finished", "msgid", "operation",
         "level", "levelname", "name", "status", "current", "total"}

CanonVal(k) ==
    CASE k = "time" -> JNum("frac", 7)
      [] k = "nfiles" -> JNum("nat", 3)
      [] k = "compressed_size" -> JNum("nat", 2)
      [] k = "deduplicated_size" -> JNum("nat", 1)
      [] k = "original_size" -> JNum("nat", 4)
      [] k = "path" -> JStr("/x")
      [] k = "message" -> JStr("m")
      [] k = "finished" -> JBool(TRUE)
      [] k = "msgid" -> JStr("id")
      [] k = "operation" -> JNum("nat", 1)
      [] k = "level" -> JStr("warning")
      [] k = "levelname" -> JStr("INFO")
      [] k = "name" -> JStr("borg")
      [] k = "status" -> JStr("A")
      [] k = "current" -> JNum("nat", 5)
      [] k = "total" -> JNum("nat", 9)
      [] OTHER -> JStr("?")

\* an object of the given type tag with every key present
Full(ty) == [k \in Keys |-> IF k = "type" THEN JStr(ty) ELSE CanonVal(k)]
Drop(f, k) == [x \in DOMAIN f \ {k} |-> f[x]]
Put(f, k, v) == [x \in DOMAIN f |-> IF x = k THEN v ELSE f[x]]

DropKeys == {"message", "msgid", "total", "time"}
Alts == {<<"time", JNum("neg", 1)>>, <<"time", JNum("huge", 1)>>,
         <<"message", JNum("nat", 0)>>, <<"level", JStr("critical")>>}

Lines ==
    {Line(NotJson), Line(JNum("nat", 1)),
     Line(JObj(Drop(Full("log_message"), "type"))),
     Line(JObj(Put(Full("log_message"), "type", JNum("nat", 1)))),
     Line(JObj(Full("unknown_tag")))}
    \cup {Line(JObj(Full(ty))) : ty \in KnownTypes}
    \cup {Line(JObj(Drop(Full(ty), k))) : ty \in KnownTypes, k \in DropKeys}
    \cup {Line(JObj(Put(Full(ty), a[1], a[2]))) : ty \in KnownTypes, a \in Alts}

\* ------------------------------------------------------------------------
\* Spec: the Events iterator driven over a stream
\* ------------------------------------------------------------------------
Init ==
    /\ inp = <<>>
    /\ out = <<>>
    /\ iter = "active"
    /\ RepoIdle
    /\ RunIdle
    /\ CompIdle
    /\ CfgIdle
    /\ LoadIdle
    /\ InitIdle
    /\ BackendIdle

\* next() on a line that decodes (or degrades to Other)
NextYields ==
    /\ iter = "active"
    /\ Len(inp) < MaxLines
    /\ \E line \in Lines :
         LET r == Events_next(ReadOk(line))
         IN  /\ r.tag = "Some"
             /\ inp' = Append(inp, ReadOk(line))
             /\ out' = Append(out, r.event)
             /\ iter' = iter
           /\ UNCHANGED notDecode
             /\ UNCHANGED notDecode

\* next() on a line whose decoding panics
NextPanics ==
    /\ iter = "active"
    /\ Len(inp) < MaxLines
    /\ \E line \in Lines :
         /\ Events_next(ReadOk(line)).tag = "Panic"
         /\ inp' = Append(inp, ReadOk(line))
         /\ iter' = "panicked"
         /\ out' = out
         /\ UNCHANGED notDecode

\* next() when reading the line failed
NextReadError ==
    /\ iter = "active"
    /\ Len(inp) < MaxLines
    /\ LET r == Events_next(ReadErr)
       IN  /\ inp' = Append(inp, ReadErr)
           /\ out' = Append(out, r.event)
           /\ iter' = iter
           /\ UNCHANGED notDecode

\* next() at the end of the stream
NextEnds ==
    /\ iter = "active"
    /\ Events_next(Eof).tag = "None"
    /\ iter' = "ended"
    /\ UNCHANGED <<inp, out>>
    /\ UNCHANGED notDecode

Next == NextYields \/ NextPanics \/ NextReadError \/ NextEnds

Spec == Init /\ [][Next]_vars

\* ------------------------------------------------------------------------
\* Properties of the decoder
\* ------------------------------------------------------------------------
IsLine(i) == inp[i].read = "Ok"
TypeOf(line) == and_then(get(line.json, "type"), as_str)
HasType(line, ty) == TypeOf(line).some /\ TypeOf(line).val = ty
HasStr(line, k) == and_then(get(line.json, k), as_str).some
HasU64(line, k) == and_then(get(line.json, k), as_u64).some

\* C1: the iterator yields exactly one event per line read, in line order,
\* never panics, and ends only at the end of the stream.
C1_OneEventPerLine ==
    /\ iter # "panicked"
    /\ Len(out) = Len(inp)
    /\ \A i \in 1..Len(inp) : inp[i].read = "Err" => out[i].kind = "Error"

\* C2: a question_prompt line without a string message or a string msgid
\* decodes to Other(original line) and does not panic the decoding thread.
PromptLacksField(line) ==
    HasType(line, "question_prompt") /\ (~HasStr(line, "message") \/ ~HasStr(line, "msgid"))

C2_PromptMissingFieldIsOther ==
    \A i \in 1..Len(inp) :
        (IsLine(i) /\ PromptLacksField(inp[i].line))
            => /\ iter # "panicked"
               /\ i <= Len(out)
               /\ out[i] = Other(inp[i].line)

\* C3 as claimed: a log_message line without message, and a progress_percent
\* line without total, decode to Other(original line).
LogLacksMessage(line) == HasType(line, "log_message") /\ ~HasStr(line, "message")
PercentLacksTotal(line) == HasType(line, "progress_percent") /\ ~HasU64(line, "total")

Undecodable(line) ==
    \/ line.json = NotJson
    \/ ~TypeOf(line).some
    \/ TypeOf(line).val \notin KnownTypes

\* every key is present with a value of the JSON type borg writes for it
Complete(line) ==
    /\ TypeOf(line).some
    /\ TypeOf(line).val \in KnownTypes
    /\ \A k \in Keys \ {"type"} :
          /\ get(line.json, k).some
          /\ get(line.json, k).val.t = CanonVal(k).t

VariantOf(ty) ==
    CASE ty = "archive_progress" -> "ArchiveProgress"
      [] ty = "progress_message" -> "ProgressMessage"
      [] ty = "log_message" -> "LogMessage"
      [] ty = "file_status" -> "FileStatus"
      [] ty = "progress_percent" -> "ProgressPercent"
      [] ty = "question_prompt" -> "Prompt"
      [] OTHER -> "Other"

C4_DecodeByType ==
    \A i \in 1..Len(inp) :
        IsLine(i) =>
            /\ Undecodable(inp[i].line)
                  => (i <= Len(out) /\ out[i] = Other(inp[i].line))
            /\ Complete(inp[i].line)
                  => /\ i <= Len(out)
                     /\ out[i].kind = VariantOf(TypeOf(inp[i].line).val)
                     /\ out[i].kind = "FileStatus"
                           => /\ out[i].path = inp[i].line.json.f["path"].s
                              /\ out[i].status = inp[i].line.json.f["status"].s
                     /\ out[i].kind = "Prompt"
                           => /\ out[i].prompt = inp[i].line.json.f["message"].s
                              /\ out[i].msgid = inp[i].line.json.f["msgid"].s

\* ------------------------------------------------------------------------
\* Strings are sequences of characters.  &str helpers of the standard library
\* ------------------------------------------------------------------------
Result_Ok(v) == [ok |-> TRUE, val |-> v]
Result_Err(e) == [ok |-> FALSE, err |-> e]

strip_prefix(s, p) ==
    IF Len(s) >= Len(p) /\ SubSeq(s, 1, Len(p)) = p
    THEN Some(SubSeq(s, Len(p) + 1, Len(s)))
    ELSE None

\* the index of the first occurrence of c in s, 0 when there is none
find(s, c) ==
    IF \E i \in 1..Len(s) : s[i] = c
    THEN CHOOSE i \in 1..Len(s) : s[i] = c /\ \A j \in 1..(i - 1) : s[j] # c
    ELSE 0

\* str::split_once(c): splits at the first occurrence
split_once(s, c) ==
    LET i == find(s, c)
    IN  IF i = 0 THEN None
        ELSE Some(<<SubSeq(s, 1, i - 1), SubSeq(s, i + 1, Len(s))>>)

starts_with(s, c) == Len(s) > 0 /\ s[1] = c

Digits == {"0", "1", "2", "3", "4", "5", "6", "7", "8", "9"}
DigitVal(c) ==
    CASE c = "0" -> 0 [] c = "1" -> 1 [] c = "2" -> 2 [] c = "3" -> 3
      [] c = "4" -> 4 [] c = "5" -> 5 [] c = "6" -> 6 [] c = "7" -> 7
      [] c = "8" -> 8 [] OTHER -> 9
DigitChar(d) ==
    CASE d = 0 -> "0" [] d = 1 -> "1" [] d = 2 -> "2" [] d = 3 -> "3"
      [] d = 4 -> "4" [] d = 5 -> "5" [] d = 6 -> "6" [] d = 7 -> "7"
      [] d = 8 -> "8" [] OTHER -> "9"

U16Max == 65535

RECURSIVE digits_value(_, _)
digits_value(s, acc) ==
    IF s = <<>> \/ acc > U16Max THEN acc
    ELSE digits_value(Tail(s), acc * 10 + DigitVal(Head(s)))

\* <u16 as FromStr>::from_str: an optional '+', then one or more digits,
\* the value at most u16::MAX
parse_u16(s) ==
    LET d == IF starts_with(s, "+") THEN Tail(s) ELSE s
    IN  IF d = <<>> \/ \E i \in 1..Len(d) : d[i] \notin Digits
        THEN Result_Err("invalid digit")
        ELSE IF digits_value(d, 0) > U16Max THEN Result_Err("overflow")
        ELSE Result_Ok(digits_value(d, 0))

\* Display for u16
RECURSIVE fmt_u16(_)
fmt_u16(n) ==
    IF n < 10 THEN <<DigitChar(n)>>
    ELSE Append(fmt_u16(n \div 10), DigitChar(n % 10))

\* ------------------------------------------------------------------------
\* std::path::PathBuf on Unix
\* ------------------------------------------------------------------------
is_absolute(p) == starts_with(p, "/")
is_relative(p) == ~is_absolute(p)

\* Path::join / PathBuf::push: an absolute argument replaces the base
Path_join(base, p) ==
    IF is_absolute(p) THEN p
    ELSE IF base = <<>> \/ base[Len(base)] = "/" THEN base \o p
    ELSE base \o <<"/">> \o p

\* the segments of s between the separators c
RECURSIVE split(_, _)
split(s, c) ==
    LET i == find(s, c)
    IN  IF i = 0 THEN <<s>>
        ELSE <<SubSeq(s, 1, i - 1)>> \o split(SubSeq(s, i + 1, Len(s)), c)

RECURSIVE normal_components(_)
normal_components(segs) ==
    IF segs = <<>> THEN <<>>
    ELSE IF Head(segs) = <<>> \/ Head(segs) = <<".">>
         THEN normal_components(Tail(segs))
         ELSE <<Head(segs)>> \o normal_components(Tail(segs))

\* Path::components: RootDir, or CurDir for a leading "." of a relative
\* path, then the segments that are neither empty nor "."
components(p) ==
    LET segs == split(p, "/")
        start == IF is_absolute(p) THEN <<"RootDir">>
                 ELSE IF Head(segs) = <<".">> THEN <<"CurDir">>
                 ELSE <<>>
    IN  <<start, normal_components(segs)>>

\* PartialEq for Path compares the components
Path_eq(p, q) == components(p) = components(q)

\* ------------------------------------------------------------------------
\* Remote (repo.rs 135-180)
\* ------------------------------------------------------------------------
Remote_from_str_last(s) ==
    LET at == IF \E i \in 1..Len(s) : s[i] = "@"
              THEN CHOOSE i \in 1..Len(s) : s[i] = "@" /\ \A j \in (i + 1)..Len(s) : s[j] # "@"
              ELSE 0
        user == IF at > 0 THEN Some(SubSeq(s, 1, at - 1)) ELSE None
        rest == IF at > 0 THEN SubSeq(s, at + 1, Len(s)) ELSE s
        sp == split_once(rest, ":")
    IN  IF sp.some
        THEN LET p == parse_u16(sp.val[2])
             IN  IF ~p.ok THEN Result_Err("Invalid remote: Failed to parse port")
                 ELSE Result_Ok([user |-> user, host |-> sp.val[1], port |-> Some(p.val)])
        ELSE Result_Ok([user |-> user, host |-> rest, port |-> None])

Remote_from_str(s) ==
    LET su == split_once(s, "@")
        user == IF su.some THEN Some(su.val[1]) ELSE None
        rest == IF su.some THEN su.val[2] ELSE s
        sp == split_once(rest, ":")
    IN  IF sp.some
        THEN LET p == parse_u16(sp.val[2])
             IN  IF ~p.ok THEN Result_Err("Invalid remote: Failed to parse port")
                 ELSE Result_Ok([user |-> user, host |-> sp.val[1], port |-> Some(p.val)])
        ELSE Result_Ok([user |-> user, host |-> rest, port |-> None])

Remote_to_string(remote) ==
    (IF remote.user.some THEN remote.user.val \o <<"@">> ELSE <<>>)
    \o remote.host
    \o (IF remote.port.some THEN <<":">> \o fmt_u16(remote.port.val) ELSE <<>>)

\* ------------------------------------------------------------------------
\* Repo (repo.rs 51-133).  The passphrase is None after parsing and takes
\* no part in Display or PartialEq.
\* ------------------------------------------------------------------------
FilePrefix == <<"f", "i", "l", "e", ":", "/", "/">>
SshPrefix == <<"s", "s", "h", ":", "/", "/">>
MkRepo(remote, p) == [remote |-> remote, path |-> p, passphrase |-> None]

Repo_from_ssh(repo) ==
    LET sp == split_once(repo, "/")
    IN  IF ~sp.some
        THEN Result_Err("Invalid repository specifier (No \"/\" after \"ssh://\")")
        ELSE LET remote == Remote_from_str(sp.val[1])
                 p == sp.val[2]
             IN  IF ~remote.ok THEN Result_Err(remote.err)
                 ELSE IF ~starts_with(p, ".") /\ ~starts_with(p, "~")
                      THEN Result_Ok(MkRepo(Some(remote.val), Path_join(<<"/">>, p)))
                      ELSE Result_Ok(MkRepo(Some(remote.val), p))

Repo_from_legacy(remote_s, p) ==
    LET remote == Remote_from_str(remote_s)
    IN  IF ~remote.ok THEN Result_Err(remote.err)
        ELSE Result_Ok(MkRepo(Some(remote.val), p))

Repo_from_str(s) ==
    IF strip_prefix(s, FilePrefix).some
    THEN Result_Ok(MkRepo(None, strip_prefix(s, FilePrefix).val))
    ELSE IF strip_prefix(s, SshPrefix).some
    THEN Repo_from_ssh(strip_prefix(s, SshPrefix).val)
    ELSE IF split_once(s, ":").some
    THEN Repo_from_legacy(split_once(s, ":").val[1], split_once(s, ":").val[2])
    ELSE Result_Ok(MkRepo(None, s))

Repo_to_string(repo) ==
    (IF repo.remote.some
     THEN SshPrefix \o Remote_to_string(repo.remote.val)
          \o (IF is_relative(repo.path) THEN <<"/">> ELSE <<>>)
     ELSE <<>>)
    \o repo.path

Repo_eq(a, b) == Path_eq(a.path, b.path) /\ a.remote = b.remote

\* ------------------------------------------------------------------------
\* RepoSpec: parse an address, format the Repo, parse the formatted text
\* ------------------------------------------------------------------------
MaxAddrLen == 4
Alphabet == {"a", "/", ":", "@", ".", "~", "2"}
Strs(n) == UNION {[1..k -> Alphabet] : k \in 0..n}
RepoInputs == {pre \o body : pre \in {<<>>, FilePrefix, SshPrefix}, body \in Strs(MaxAddrLen)}

RepoInit ==
    /\ rs \in RepoInputs
    /\ rpc = "input"
    /\ parsed = None
    /\ text = <<>>
    /\ reparsed = None
    /\ DecodeIdle
    /\ RunIdle
    /\ CompIdle
    /\ CfgIdle
    /\ LoadIdle
    /\ InitIdle
    /\ BackendIdle

RepoParse ==
    /\ rpc = "input"
    /\ Repo_from_str(rs).ok
    /\ parsed' = Some(Repo_from_str(rs).val)
    /\ rpc' = "parsed"
    /\ UNCHANGED <<rs, text, reparsed>>
    /\ UNCHANGED notRepo

RepoReject ==
    /\ rpc = "input"
    /\ ~Repo_from_str(rs).ok
    /\ rpc' = "rejected"
    /\ UNCHANGED <<rs, parsed, text, reparsed>>
    /\ UNCHANGED notRepo

RepoFormat ==
    /\ rpc = "parsed"
    /\ text' = Repo_to_string(parsed.val)
    /\ rpc' = "formatted"
    /\ UNCHANGED <<rs, parsed, reparsed>>
    /\ UNCHANGED notRepo

RepoReparse ==
    /\ rpc = "formatted"
    /\ reparsed' = Repo_from_str(text)
    /\ rpc' = "reparsed"
    /\ UNCHANGED <<rs, parsed, text>>
    /\ UNCHANGED notRepo

RepoNext == RepoParse \/ RepoReject \/ RepoFormat \/ RepoReparse

RepoSpec == RepoInit /\ [][RepoNext]_vars

\* C10: for every address string that parses, the formatted Repo parses again
\* to an equal Repo (same remote, same path), and a legacy address is
\* formatted in the ssh:// form.
IsLegacy(s) ==
    /\ ~strip_prefix(s, FilePrefix).some
    /\ ~strip_prefix(s, SshPrefix).some
    /\ split_once(s, ":").some

\* the address syntaxes of the Repo documentation, with a non-empty host
\* (free of '/') and a non-empty path
HasChar(s, c) == \E i \in 1..Len(s) : s[i] = c

GoodRemote(r) ==
    /\ Remote_from_str(r).ok
    /\ Remote_from_str(r).val.host # <<>>
    /\ ~HasChar(r, "/")

Supported(s) ==
    IF strip_prefix(s, FilePrefix).some THEN strip_prefix(s, FilePrefix).val # <<>>
    ELSE IF strip_prefix(s, SshPrefix).some
    THEN LET sp == split_once(strip_prefix(s, SshPrefix).val, "/")
         IN  sp.some /\ GoodRemote(sp.val[1]) /\ sp.val[2] # <<>>
    ELSE IF split_once(s, ":").some
    THEN GoodRemote(split_once(s, ":").val[1]) /\ split_once(s, ":").val[2] # <<>>
    ELSE s # <<>>

C10_FormatParseRoundTrip ==
    (rpc = "reparsed" /\ Supported(rs)) =>
        /\ reparsed.ok
        /\ Repo_eq(reparsed.val, parsed.val)
        /\ IsLegacy(rs) => strip_prefix(text, SshPrefix).some

\* C11: a Repo without remote, whatever its path, is parsed back from its
\* formatted string to an equal Repo.
C11_LocalRepoRoundTrip ==
    (rpc = "reparsed" /\ ~parsed.val.remote.some) =>
        /\ reparsed.ok
        /\ Repo_eq(reparsed.val, parsed.val)

\* the remote part of an address: up to the first '/' after ssh://, up to the
\* first ':' of a legacy address
HasRemotePart(s) ==
    IF strip_prefix(s, FilePrefix).some THEN FALSE
    ELSE IF strip_prefix(s, SshPrefix).some THEN HasChar(strip_prefix(s, SshPrefix).val, "/")
    ELSE HasChar(s, ":")
FirstIdx(s, c) == CHOOSE i \in 1..Len(s) : s[i] = c /\ \A j \in 1..(i - 1) : s[j] # c
LastIdx(s, c) == CHOOSE i \in 1..Len(s) : s[i] = c /\ \A j \in (i + 1)..Len(s) : s[j] # c
Before(s, i) == SubSeq(s, 1, i - 1)
After(s, i) == SubSeq(s, i + 1, Len(s))
RemotePart(s) ==
    IF strip_prefix(s, SshPrefix).some
    THEN Before(strip_prefix(s, SshPrefix).val, FirstIdx(strip_prefix(s, SshPrefix).val, "/"))
    ELSE Before(s, FirstIdx(s, ":"))
IsNumber(p) ==
    /\ p # <<>>
    /\ \A i \in 1..Len(p) : p[i] \in Digits
    /\ digits_value(p, 0) <= U16Max
\* the remote an address must give when its user ends at position at of the
\* remote part (0: no user)
RemoteSplitAt(r, at) ==
    LET user == IF at > 0 THEN Some(Before(r, at)) ELSE None
        rest == IF at > 0 THEN After(r, at) ELSE r
        host == IF HasChar(rest, ":") THEN Before(rest, FirstIdx(rest, ":")) ELSE rest
        port == IF HasChar(rest, ":") THEN After(rest, FirstIdx(rest, ":")) ELSE <<>>
    IN  IF HasChar(rest, ":") /\ ~IsNumber(port)
        THEN rpc = "rejected"
        ELSE /\ rpc # "rejected"
             /\ parsed.val.remote.some
             /\ parsed.val.remote.val.user = user
             /\ parsed.val.remote.val.host = host
             /\ parsed.val.remote.val.port.some = HasChar(rest, ":")
             /\ HasChar(rest, ":") => parsed.val.remote.val.port.val = digits_value(port, 0)

\* C12 as claimed: the user is everything before the last '@' of the remote
\* part, the remainder is split at ':' into host and port, and a port that
\* is not a number makes the whole address fail to parse.
C12_UserBeforeLastAt ==
    (rpc # "input" /\ HasRemotePart(rs)) =>
        LET r == RemotePart(rs)
        IN  RemoteSplitAt(r, IF HasChar(r, "@") THEN LastIdx(r, "@") ELSE 0)

\* C12 as amended: the user is everything before the first '@' of the remote
\* part, the remainder is split at its first ':' into host and port, and a
\* port that is not a number (of 16 bits) makes the whole address fail to
\* parse.
C12_UserBeforeFirstAt ==
    (rpc # "input" /\ HasRemotePart(rs)) =>
        LET r == RemotePart(rs)
        IN  RemoteSplitAt(r, IF HasChar(r, "@") THEN FirstIdx(r, "@") ELSE 0)

C12_Witness ==
    /\ rpc = "parsed" /\ HasRemotePart(rs)
    /\ parsed.val.remote.val.user.some
    /\ parsed.val.remote.val.user.val # <<>>
    /\ HasChar(parsed.val.remote.val.host, "@")

\* ------------------------------------------------------------------------
\* util::resolve_path (util.rs 3-13)
\* ------------------------------------------------------------------------
Home == <<"/", "h">>
Tilde == <<"~">>

RECURSIVE join_segments(_)
join_segments(segs) ==
    IF segs = <<>> THEN <<>>
    ELSE IF Len(segs) = 1 THEN Head(segs)
    ELSE Head(segs) \o <<"/">> \o join_segments(Tail(segs))

\* Path::strip_prefix("~/"): the path after a first component "~"
strip_tilde(p) ==
    LET c == components(p)
    IN  IF c[1] = <<>> /\ c[2] # <<>> /\ Head(c[2]) = Tilde
        THEN Some(join_segments(Tail(c[2])))
        ELSE None

resolve_path(p) ==
    IF Path_eq(p, Tilde) THEN Home
    ELSE IF strip_tilde(p).some THEN Path_join(Home, strip_tilde(p).val)
    ELSE p

\* ------------------------------------------------------------------------
\* BorgWrapper::create_archive (borg.rs 464-556) up to the point where the
\* events of the process are streamed.  env: the files that exist, whether
\* the process can be spawned, whether the child has a stderr handle.
\* ------------------------------------------------------------------------
\* Path::is_file : true of every path
is_file_any(env, p) == TRUE

is_file(env, p) == \E f \in env.files : Path_eq(f, p)

\* the file as handed to borg (pattern_file and exclude_file alike)
anchored(archive, file) ==
    IF is_absolute(file) THEN Result_Ok(file)
    ELSE IF archive.paths # <<>> THEN Result_Ok(resolve_path(Path_join(archive.paths[1], file)))
    ELSE Result_Err("relative file for multiple paths")

create_archive(archive, env) ==
    IF archive.paths = <<>> THEN Result_Err("No paths specified")
    ELSE IF archive.pattern_file.some /\ ~anchored(archive, archive.pattern_file.val).ok
    THEN Result_Err("relative pattern file for multiple paths")
    ELSE IF archive.pattern_file.some
            /\ ~is_file(env, anchored(archive, archive.pattern_file.val).val)
    THEN Result_Err("pattern file does not exist")
    ELSE IF archive.exclude_file.some /\ ~anchored(archive, archive.exclude_file.val).ok
    THEN Result_Err("relative exclude file for multiple paths")
    ELSE IF archive.exclude_file.some
            /\ ~is_file(env, anchored(archive, archive.exclude_file.val).val)
    THEN Result_Err("exclude file does not exist")
    ELSE IF ~env.spawn_ok THEN Result_Err("spawn failed")
    ELSE IF ~env.stderr_ok THEN Result_Err("No stderr")
    ELSE Result_Ok("events")

\* ------------------------------------------------------------------------
\* run (run.rs 14-129)
\* ------------------------------------------------------------------------
MaxJobs == 2
MaxEvents == 2

Jobs == 1..njobs

\* the vector index of the code is zero-based: index idx here is idx - 1 there
RepoNames == <<"repo1", "repo2", "repo3", "repo4">>
ArchiveNames == <<"arch1", "arch2", "arch3", "arch4">>

\* run.rs 22-31
prefix_of_always(multi, idx) == <<"[", RepoNames[idx], "::", ArchiveNames[idx], "] ">>

prefix_of(multi, idx) ==
    IF multi THEN <<"[", RepoNames[idx], "::", ArchiveNames[idx], "] ">> ELSE <<>>

NewPb == [position |-> 0, prefix |-> <<>>, message |-> ""]

\* the message a worker sends for an event (run.rs 64)
worker_msg_first(idx, event, seq) == [idx |-> 1, event |-> event, src |-> idx, seq |-> seq]

worker_msg(idx, event, seq) == [idx |-> idx, event |-> event, src |-> idx, seq |-> seq]

\* the arms of the consumer's match (run.rs 85-121): the progress bar after
\* the event and the line printed through it, if any
consume_prints_all(h, event) ==
    CASE event.kind = "ArchiveProgress" ->
            [pb |-> [position |-> event.nfiles,
                     prefix |-> <<[k |-> "O", n |-> event.original_size],
                                  [k |-> "C", n |-> event.compressed_size],
                                  [k |-> "D", n |-> event.deduplicated_size],
                                  [k |-> "N", n |-> event.nfiles]>>,
                     message |-> event.path],
             println |-> None]
      [] event.kind = "Error" ->
            [pb |-> h.pb, println |-> Some([prefix |-> h.prefix, error |-> TRUE, body |-> event.err])]
      [] OTHER ->
            [pb |-> h.pb, println |-> Some([prefix |-> h.prefix, error |-> FALSE, body |-> ""])]

consume(h, event) ==
    CASE event.kind = "ArchiveProgress" ->
            [pb |-> [position |-> event.nfiles,
                     prefix |-> <<[k |-> "O", n |-> event.original_size],
                                  [k |-> "C", n |-> event.compressed_size],
                                  [k |-> "D", n |-> event.deduplicated_size],
                                  [k |-> "N", n |-> event.nfiles]>>,
                     message |-> event.path],
             println |-> None]
      [] event.kind = "ProgressMessage" /\ event.message.some ->
            [pb |-> h.pb,
             println |-> Some([prefix |-> h.prefix, error |-> FALSE, body |-> event.message.val])]
      [] event.kind = "LogMessage" ->
            [pb |-> h.pb,
             println |-> Some([prefix |-> h.prefix, error |-> FALSE, body |-> event.message])]
      [] event.kind = "Error" ->
            [pb |-> h.pb,
             println |-> Some([prefix |-> h.prefix, error |-> TRUE, body |-> event.err])]
      [] OTHER -> [pb |-> h.pb, println |-> None]

\* what the model's jobs are made of
SlashA == <<"/", "a">>
RunArchives ==
    {[paths |-> <<SlashA>>, pattern_file |-> None, exclude_file |-> None],
     [paths |-> <<>>, pattern_file |-> None, exclude_file |-> None],
     [paths |-> <<SlashA>>, pattern_file |-> None, exclude_file |-> Some(<<".", "b">>)]}
RunEnvs ==
    {[files |-> {<<"/", "a", "/", ".", "b">>}, spawn_ok |-> TRUE, stderr_ok |-> TRUE],
     [files |-> {}, spawn_ok |-> TRUE, stderr_ok |-> TRUE],
     [files |-> {}, spawn_ok |-> FALSE, stderr_ok |-> TRUE],
     [files |-> {}, spawn_ok |-> TRUE, stderr_ok |-> FALSE]}

RunLines ==
    {Line(NotJson),
     Line(JObj(Drop(Full("progress_message"), "message"))),
     Line(JObj(Drop(Full("question_prompt"), "msgid")))}
    \cup {Line(JObj(Full(ty))) : ty \in KnownTypes}
RunItems == {ReadErr} \cup {ReadOk(l) : l \in RunLines}
\* what next() returns for them, and how create_archive can end
RunYields == [item \in RunItems |-> Events_next(item)]
RunCreated == {create_archive(archive, env).ok : archive \in RunArchives, env \in RunEnvs}

RECURSIVE sum_over(_, _)
sum_over(f, n) == IF n = 0 THEN 0 ELSE f[n] + sum_over(f, n - 1)
TotalRead == sum_over(nread, MaxJobs)

\* the receiver lives until the receive loop ends or the consumer panics
RxAlive == mainpc \in {"spawn", "recv"}
\* a worker owns its clone of tx until its closure returns or unwinds
WorkerHoldsTx(i) == wstat[i] \in {"started", "streaming"}

RunInit ==
    /\ njobs \in 1..MaxJobs
    /\ mainpc = "spawn"
    /\ handles = <<>>
    /\ wstat = [i \in 1..MaxJobs |-> "unspawned"]
    /\ nread = [i \in 1..MaxJobs |-> 0]
    /\ chan = <<>>
    /\ nrecv = [i \in 1..MaxJobs |-> 0]
    /\ last = None
    /\ shown = None
    /\ sendFailed = FALSE
    /\ joined = 0
    /\ DecodeIdle
    /\ RepoIdle
    /\ CompIdle
    /\ CfgIdle
    /\ LoadIdle
    /\ InitIdle
    /\ BackendIdle

\* one iteration of the spawn loop (run.rs 25-78)
MainSpawn ==
    /\ mainpc = "spawn"
    /\ Len(handles) < njobs
    /\ LET idx == Len(handles) + 1
       IN  /\ handles' = Append(handles, [pb |-> NewPb, prefix |-> prefix_of(njobs > 1, idx)])
           /\ wstat' = [wstat EXCEPT ![idx] = "started"]
    /\ UNCHANGED <<njobs, mainpc, nread, chan, nrecv, last, shown, sendFailed, joined>>
    /\ UNCHANGED notRun

\* drop(tx) (run.rs 80)
MainDropTx ==
    /\ mainpc = "spawn"
    /\ Len(handles) = njobs
    /\ mainpc' = "recv"
    /\ UNCHANGED <<njobs, handles, wstat, nread, chan, nrecv, last, shown,
                   sendFailed, joined>>
    /\ UNCHANGED notRun

\* the worker calls create_archive (run.rs 53-61): on an error it logs the
\* error and returns
WorkerCreate(i) ==
    /\ wstat[i] = "started"
    /\ \E created \in RunCreated :
         wstat' = [wstat EXCEPT ![i] = IF created THEN "streaming" ELSE "failed"]
    /\ UNCHANGED <<njobs, mainpc, handles, nread, chan, nrecv, last, shown,
                   sendFailed, joined>>
    /\ UNCHANGED notRun

\* one iteration of `for event in events` that yields an event and sends it
\* (run.rs 63-65); a send to a dropped receiver fails and unwrap() panics
WorkerSend(i) ==
    /\ wstat[i] = "streaming"
    /\ TotalRead < MaxEvents
    /\ \E item \in RunItems : \E r \in {RunYields[item]} :
         /\ r.tag = "Some"
         /\ nread' = [nread EXCEPT ![i] = @ + 1]
         /\ IF RxAlive
            THEN /\ chan' = Append(chan, worker_msg(i, r.event, nread[i] + 1))
                 /\ UNCHANGED <<wstat, sendFailed>>
            ELSE /\ wstat' = [wstat EXCEPT ![i] = "panicked"]
                 /\ sendFailed' = TRUE
                 /\ chan' = chan
    /\ UNCHANGED <<njobs, mainpc, handles, nrecv, last, shown, joined>>
    /\ UNCHANGED notRun

\* the iterator panics while decoding a line: the thread unwinds
WorkerPanic(i) ==
    /\ wstat[i] = "streaming"
    /\ TotalRead < MaxEvents
    /\ \E item \in RunItems : \E r \in {RunYields[item]} :
         /\ r.tag = "Panic"
         /\ nread' = [nread EXCEPT ![i] = @ + 1]
         /\ wstat' = [wstat EXCEPT ![i] = "panicked"]
    /\ UNCHANGED <<njobs, mainpc, handles, chan, nrecv, last, shown, sendFailed, joined>>
    /\ UNCHANGED notRun

\* the process closes its stderr: the iterator ends and the closure returns.
\* Nothing waits for the process or reads its exit status, so a process
\* that exits non-zero takes this same step.
WorkerFinish(i) ==
    /\ wstat[i] = "streaming"
    /\ Events_next(Eof).tag = "None"
    /\ wstat' = [wstat EXCEPT ![i] = "finished"]
    /\ UNCHANGED <<njobs, mainpc, handles, nread, chan, nrecv, last, shown, sendFailed, joined>>
    /\ UNCHANGED notRun

\* one iteration of the receive loop (run.rs 82-122); indexing the vector
\* out of bounds panics
MainRecv ==
    /\ mainpc = "recv"
    /\ chan # <<>>
    /\ LET m == Head(chan)
       IN  IF m.idx \in 1..Len(handles)
           THEN LET c == consume(handles[m.idx], m.event)
                IN  /\ handles' = [handles EXCEPT ![m.idx].pb = c.pb]
                    /\ shown' = IF c.println.some
                                THEN Some([pb |-> m.idx, line |-> c.println.val])
                                ELSE None
                    /\ nrecv' = [nrecv EXCEPT ![m.idx] = @ + 1]
                    /\ last' = Some([idx |-> m.idx, src |-> m.src, seq |-> m.seq])
                    /\ mainpc' = mainpc
           ELSE /\ mainpc' = "panicked"
                /\ UNCHANGED <<handles, shown, nrecv, last>>
    /\ chan' = Tail(chan)
    /\ UNCHANGED <<njobs, wstat, nread, sendFailed, joined>>
    /\ UNCHANGED notRun

\* the receive loop ends: the channel is empty and every sender is dropped
MainLoopEnd ==
    /\ mainpc = "recv"
    /\ chan = <<>>
    /\ \A i \in Jobs : ~WorkerHoldsTx(i)
    /\ mainpc' = "join"
    /\ UNCHANGED <<njobs, handles, wstat, nread, chan, nrecv, last, shown,
                   sendFailed, joined>>
    /\ UNCHANGED notRun

\* handle.join().unwrap() on a worker that returned (run.rs 126-128)
MainJoinOk ==
    /\ mainpc = "join"
    /\ joined < njobs
    /\ wstat[joined + 1] \in {"failed", "finished"}
    /\ joined' = joined + 1
    /\ UNCHANGED <<njobs, mainpc, handles, wstat, nread, chan, nrecv, last, shown,
                   sendFailed>>
    /\ UNCHANGED notRun

\* handle.join().unwrap() on a worker that panicked: join returns Err
MainJoinPanics ==
    /\ mainpc = "join"
    /\ joined < njobs
    /\ wstat[joined + 1] = "panicked"
    /\ joined' = joined + 1
    /\ mainpc' = "panicked"
    /\ UNCHANGED <<njobs, handles, wstat, nread, chan, nrecv, last, shown, sendFailed>>
    /\ UNCHANGED notRun

MainReturn ==
    /\ mainpc = "join"
    /\ joined = njobs
    /\ mainpc' = "done"
    /\ UNCHANGED <<njobs, handles, wstat, nread, chan, nrecv, last, shown,
                   sendFailed, joined>>
    /\ UNCHANGED notRun

RunNext ==
    \/ MainSpawn
    \/ MainDropTx
    \/ \E i \in 1..MaxJobs : WorkerCreate(i)
    \/ \E i \in 1..MaxJobs : WorkerSend(i)
    \/ \E i \in 1..MaxJobs : WorkerPanic(i)
    \/ \E i \in 1..MaxJobs : WorkerFinish(i)
    \/ MainRecv
    \/ MainLoopEnd
    \/ MainJoinOk
    \/ MainJoinPanics
    \/ MainReturn

RunSpec == RunInit /\ [][RunNext]_vars

\* ------------------------------------------------------------------------
\* Properties of run
\* ------------------------------------------------------------------------
RunEnded == mainpc \in {"done", "panicked"}
\* job j delivered every event of its process and its thread was joined with Ok
Delivered(j) == wstat[j] \in {"finished", "failed"} /\ nrecv[j] = nread[j]
JoinedOk(j) == j <= joined /\ wstat[j] # "panicked"

\* C5: when a job fails in create_archive, every other job still delivers
\* all events its process emitted and its worker thread is joined
\* successfully.
C5_FailureIsolated ==
    RunEnded =>
        \A k \in Jobs : wstat[k] = "failed" =>
            \A j \in Jobs \ {k} : Delivered(j) /\ JoinedOk(j)

\* C6: the receive loop ends only after every worker has dropped its sender,
\* no send fails, and once run has ended every worker thread has been joined.
C6_LoopEndsThenAllJoined ==
    /\ mainpc \in {"join", "done", "panicked"} => \A i \in Jobs : ~WorkerHoldsTx(i)
    /\ ~sendFailed
    /\ RunEnded => joined = njobs

\* C7: every message in the channel or received carries the index of the job
\* that produced it, the index is a valid index of the handle vector, and the
\* messages of one index are received in the order they were sent.
SameIdxUpTo(p) == Cardinality({q \in 1..p : chan[q].idx = chan[p].idx})

C7_AttributionAndFifo ==
    /\ \A p \in 1..Len(chan) :
          /\ chan[p].idx = chan[p].src
          /\ chan[p].idx \in 1..Len(handles)
          /\ chan[p].seq = nrecv[chan[p].idx] + SameIdxUpTo(p)
    /\ last.some =>
          /\ last.val.idx = last.val.src
          /\ last.val.idx \in 1..Len(handles)
          /\ last.val.seq = nrecv[last.val.idx]

C7_Witness == last.some /\ last.val.idx = 2 /\ last.val.seq = 2

\* C8: the failure of create_archive in a worker is sent as an Error event
\* with the job's index through the channel (and so reaches the consumer).
C8_FailureSentAsError ==
    \A i \in Jobs : wstat[i] = "failed" =>
        \/ \E p \in 1..Len(chan) : chan[p].idx = i /\ chan[p].event.kind = "Error"
        \/ nrecv[i] >= 1

\* the step of the consumer that handles the message at the head of the channel
ConsumerStep == mainpc = "recv" /\ chan # <<>> /\ chan' = Tail(chan)
Label(i) == IF njobs > 1 THEN <<"[", RepoNames[i], "::", ArchiveNames[i], "] ">> ELSE <<>>
OthersUntouched(i) == \A j \in 1..Len(handles) : j # i => handles'[j] = handles[j]
UpdatesIndicator(m) ==
    /\ handles'[m.idx].pb.position = m.event.nfiles
    /\ handles'[m.idx].pb.message = m.event.path
    /\ handles'[m.idx].pb.prefix[1].n = m.event.original_size
    /\ handles'[m.idx].pb.prefix[2].n = m.event.compressed_size
    /\ handles'[m.idx].pb.prefix[3].n = m.event.deduplicated_size
    /\ shown' = None
PrintsLine(m) ==
    /\ shown'.some
    /\ shown'.val.pb = m.idx
    /\ shown'.val.line.prefix = Label(m.idx)
    /\ handles' = handles
IsPrinted(event) ==
    \/ event.kind = "ProgressMessage" /\ event.message.some
    \/ event.kind \in {"LogMessage", "Error"}

TString(s) == [t |-> "string", s |-> s]
TInteger(i) == [t |-> "integer", i |-> i]
TBoolean(b) == [t |-> "boolean", b |-> b]
TTable(tab) == [t |-> "table", tab |-> tab]

\* str::to_lowercase on the spellings the inputs use
to_lowercase(s) ==
    CASE s = "LZ4" -> "lz4"
      [] s = "Zstd" -> "zstd"
      [] OTHER -> s

\* `*i as u8`: the low eight bits
as_u8(i) == i % 256

\* ------------------------------------------------------------------------
\* ConfigError (config.rs 7-81).  A chain Keyed { key, err: Keyed { .. } } is
\* held as the innermost error with the keys of the chain, outermost first:
\* at_key wraps, so it puts its key in front.
\* ------------------------------------------------------------------------
ConfigError(kind, a, b) == [kind |-> kind, a |-> a, b |-> b, at |-> <<>>]

TypeError(expected, found) == ConfigError("TypeError", expected, found)
ValueError == ConfigError("ValueError", "", "")
MissingKey(key) == ConfigError("MissingKey", key, "")
ExclusiveKeys(key, other_key) == ConfigError("ExclusiveKeys", key, other_key)
MissingTemplate(n) == ConfigError("MissingTemplate", n, "")
OtherError(msg) == ConfigError("Other", msg, "")
IOError == ConfigError("IOError", "No such file or directory", "")
ParseError == ConfigError("ParseError", "TOML parse error", "")

at_key(err, key) == [err EXCEPT !.at = <<key>> \o @]

\* [String]::join(".")
RECURSIVE join(_, _)
join(keys, sep) ==
    IF keys = <<>> THEN <<>>
    ELSE IF Len(keys) = 1 THEN <<keys[1]>>
    ELSE <<keys[1], sep>> \o join(Tail(keys), sep)

\* Display for ConfigError, as the pieces written
ConfigError_to_string(e) ==
    LET cur == CASE e.kind = "TypeError" ->
                        <<"Invalid type: expected ", e.a, ", found ", e.b>>
                 [] e.kind = "ValueError" -> <<"Invalid value">>
                 [] e.kind = "MissingKey" -> <<"Missing key \"", e.a, "\"">>
                 [] e.kind = "ExclusiveKeys" -> <<e.a, " and ", e.b, " are exclusive">>
                 [] e.kind = "MissingTemplate" -> <<"Missing template \"", e.a, "\"">>
                 [] OTHER -> <<e.a>>
    IN  IF e.at = <<>> THEN cur ELSE cur \o <<" at ">> \o join(e.at, ".")

\* ------------------------------------------------------------------------
\* Compression (borrg.rs 29-123) and Compression::parse (config.rs 289-393).
\* The variant None has neither auto nor level: they are held at FALSE and
\* None; Lz4 has no level.
\* ------------------------------------------------------------------------
MkCompression(kind, lv, auto, obfuscation) ==
    [kind |-> kind, level |-> lv, auto |-> auto, obfuscation |-> obfuscation]

Algorithms == {"none", "lz4", "zstd", "zlib", "lzma"}

\* the variant of an algorithm name with the fields it has
variant(algorithm, lv, auto, obfuscation) ==
    CASE algorithm = "none" -> MkCompression("None", None, FALSE, obfuscation)
      [] algorithm = "lz4" -> MkCompression("Lz4", None, auto, obfuscation)
      [] algorithm = "zstd" -> MkCompression("Zstd", lv, auto, obfuscation)
      [] algorithm = "zlib" -> MkCompression("Zlib", lv, auto, obfuscation)
      [] algorithm = "lzma" -> MkCompression("Lzma", lv, auto, obfuscation)

Compression_parse_table(tab) ==
    IF tab.auto.some /\ tab.auto.val.t # "boolean"
    THEN Result_Err(at_key(TypeError("boolean", "table"), "auto"))
    ELSE IF tab.level.some /\ tab.level.val.t # "integer"
    THEN Result_Err(at_key(TypeError("integer", "table"), "level"))
    ELSE IF tab.obfuscation.some /\ tab.obfuscation.val.t # "integer"
    THEN Result_Err(at_key(TypeError("integer", "table"), "obfuscation"))
    ELSE IF tab.obfuscation.some /\ as_u8(tab.obfuscation.val.i) = 0
    THEN Result_Err(at_key(ValueError, "obfuscation"))
    ELSE IF ~tab.algorithm.some THEN Result_Err(MissingKey("algorithm"))
    ELSE IF tab.algorithm.val.t # "string"
    THEN Result_Err(at_key(TypeError("string", "table"), "algorithm"))
    ELSE IF to_lowercase(tab.algorithm.val.s) \notin Algorithms
    THEN Result_Err(at_key(ValueError, "algorithm"))
    ELSE LET auto == IF tab.auto.some THEN tab.auto.val.b ELSE FALSE
             lv == IF tab.level.some THEN Some(as_u8(tab.level.val.i)) ELSE None
             obfuscation == IF tab.obfuscation.some
                            THEN Some(as_u8(tab.obfuscation.val.i)) ELSE None
         IN  Result_Ok(variant(to_lowercase(tab.algorithm.val.s), lv, auto, obfuscation))

Compression_parse(value) ==
    IF value.t = "string"
    THEN IF to_lowercase(value.s) \in Algorithms
         THEN Result_Ok(variant(to_lowercase(value.s), None, FALSE, None))
         ELSE Result_Err(ValueError)
    ELSE IF value.t = "table" THEN Compression_parse_table(value.tab)
    ELSE Result_Err(TypeError("string or table", value.t))

\* format!("{}", n) of a u8
fmt_u8(n) == fmt_u16(n)

fmt_obfuscation(obfuscate) ==
    IF obfuscate.some
    THEN <<"o", "b", "f", "u", "s", "c", "a", "t", "e", ",">> \o fmt_u8(obfuscate.val) \o <<",">>
    ELSE <<>>

fmt_auto(auto) == IF auto THEN <<"a", "u", "t", "o", ",">> ELSE <<>>

fmt_level(l) == IF l.some THEN <<",">> \o fmt_u8(l.val) ELSE <<>>

Compression_to_string(c) ==
    CASE c.kind = "None" -> fmt_obfuscation(c.obfuscation) \o <<"n", "o", "n", "e">>
      [] c.kind = "Lz4" -> fmt_obfuscation(c.obfuscation) \o <<"l", "z", "4">> \o fmt_auto(c.auto)
      [] c.kind = "Zstd" ->
            fmt_obfuscation(c.obfuscation) \o fmt_auto(c.auto) \o <<"z", "s", "t", "d">>
                \o fmt_level(c.level)
      [] c.kind = "Zlib" ->
            fmt_obfuscation(c.obfuscation) \o fmt_auto(c.auto) \o <<"z", "l", "i", "b">>
                \o fmt_level(c.level)
      [] c.kind = "Lzma" ->
            fmt_obfuscation(c.obfuscation) \o fmt_auto(c.auto) \o <<"l", "z", "m", "a">>
                \o fmt_level(c.level)

\* ------------------------------------------------------------------------
\* CompSpec: parse a toml value as Compression, format the Compression
\* ------------------------------------------------------------------------
MaxLevel == 2

CompAlgorithms ==
    {None, Some(TInteger(1)), Some(TString("gzip")), Some(TString("Zstd"))}
        \cup {Some(TString(a)) : a \in Algorithms}
CompAutos == {None, Some(TBoolean(TRUE)), Some(TBoolean(FALSE)), Some(TString("yes"))}
CompLevels ==
    {None, Some(TString("9"))} \cup {Some(TInteger(l)) : l \in (0..MaxLevel) \cup {19, 259}}
CompObfuscations == {None, Some(TBoolean(TRUE))} \cup {Some(TInteger(o)) : o \in {0, 1, 110, 256}}
CompTables ==
    {[auto |-> a, level |-> l, obfuscation |-> o, algorithm |-> g] :
        a \in CompAutos, l \in CompLevels, o \in CompObfuscations, g \in CompAlgorithms}
CompInputs ==
    {TString(x) : x \in Algorithms \cup {"LZ4", "gzip"}} \cup {TInteger(1)}
        \cup {TTable(tab) : tab \in CompTables}

CompInit ==
    /\ cin \in {Some(v) : v \in CompInputs}
    /\ comp = None
    /\ ctext = None
    /\ DecodeIdle
    /\ RepoIdle
    /\ RunIdle
    /\ CfgIdle
    /\ LoadIdle
    /\ InitIdle
    /\ BackendIdle

CompParse ==
    /\ ~comp.some
    /\ comp' = Some(Compression_parse(cin.val))
    /\ UNCHANGED <<cin, ctext>>
    /\ UNCHANGED notComp

CompFormat ==
    /\ comp.some /\ comp.val.ok
    /\ ~ctext.some
    /\ ctext' = Some(Compression_to_string(comp.val.val))
    /\ UNCHANGED <<cin, comp>>
    /\ UNCHANGED notComp

CompNext == CompParse \/ CompFormat

CompSpec == CompInit /\ [][CompNext]_vars

\* the Compression values parsing can give
CompValues == {Compression_parse(v).val : v \in {w \in CompInputs : Compression_parse(w).ok}}

AlgorithmName(c) ==
    CASE c.kind = "None" -> <<"n", "o", "n", "e">>
      [] c.kind = "Lz4" -> <<"l", "z", "4">>
      [] c.kind = "Zstd" -> <<"z", "s", "t", "d">>
      [] c.kind = "Zlib" -> <<"z", "l", "i", "b">>
      [] c.kind = "Lzma" -> <<"l", "z", "m", "a">>

\* [obfuscate,<n>,][auto,]<algo>[,<level>]
Shape(c) ==
    (IF c.obfuscation.some
     THEN <<"o", "b", "f", "u", "s", "c", "a", "t", "e", ",">> \o fmt_u8(c.obfuscation.val) \o <<",">>
     ELSE <<>>)
    \o (IF c.auto THEN <<"a", "u", "t", "o", ",">> ELSE <<>>)
    \o AlgorithmName(c)
    \o (IF c.level.some THEN <<",">> \o fmt_u8(c.level.val) ELSE <<>>)

\* C13: the formatted string of every Compression value has the shape
\* [obfuscate,<n>,][auto,]<algo>[,<level>], each optional part present
\* exactly when its field is set, and no other value formats to the same
\* string.
C13_CompressionShape ==
    ctext.some =>
        /\ ctext.val = Shape(comp.val.val)
        /\ \A d \in CompValues : Compression_to_string(d) = ctext.val => d = comp.val.val

\* ------------------------------------------------------------------------
\* RepoConfig (config.rs 92-162)
\* ------------------------------------------------------------------------
Combined(s) == [kind |-> "Combined", s |-> s]
Split(user, host, p) == [kind |-> "Split", user |-> user, host |-> host, path |-> p]

\* one field of a Split repo: the template's value where the own one is absent
inherit_field_overwrite(own, other, key) ==
    IF other.kind = "Split" THEN other[key] ELSE own[key]

inherit_field(own, other, key) ==
    IF ~own[key].some /\ other.kind = "Split" THEN other[key] ELSE own[key]

inherit(self, other) ==
    IF self.kind = "Split"
    THEN Split(inherit_field(self, other, "user"),
               inherit_field(self, other, "host"),
               inherit_field(self, other, "path"))
    ELSE self

RepoConfig_to_string(r) ==
    IF r.kind = "Combined" THEN r.s
    ELSE IF ~r.user.some /\ r.host.some /\ ~r.path.some THEN r.host.val
    ELSE IF ~r.user.some /\ ~r.host.some /\ r.path.some THEN r.path.val
    ELSE IF ~r.user.some /\ r.host.some /\ r.path.some THEN r.host.val \o <<":">> \o r.path.val
    ELSE IF r.user.some /\ r.host.some /\ r.path.some
    THEN r.user.val \o <<"@">> \o r.host.val \o <<":">> \o r.path.val
    ELSE <<":", ":">>

\* ------------------------------------------------------------------------
\* BackupConfig (config.rs 164-287)
\* ------------------------------------------------------------------------
MkBackupConfig(template, repo, passphrase, paths, compression, pattern_file, exclude_file) ==
    [template |-> template, repo |-> repo, passphrase |-> passphrase, paths |-> paths,
     compression |-> compression, pattern_file |-> pattern_file,
     exclude_file |-> exclude_file]

BorgIgnore == <<".", "b", "o", "r", "g", "i", "g", "n", "o", "r", "e">>

BackupConfig_default_empty == MkBackupConfig(None, None, None, <<>>, None, None, None)

BackupConfig_default ==
    MkBackupConfig(None, None, None, <<Tilde>>, None, None, Some(BorgIgnore))

Ellipsis == <<".", ".", ".">>

\* the template's paths in place of every "..." : at the end instead
RECURSIVE without_ellipsis(_)
without_ellipsis(paths) ==
    IF paths = <<>> THEN <<>>
    ELSE IF Head(paths) = Ellipsis THEN without_ellipsis(Tail(paths))
    ELSE <<Head(paths)>> \o without_ellipsis(Tail(paths))

flat_map_at_end(paths, tpaths) ==
    IF \E i \in 1..Len(paths) : paths[i] = Ellipsis
    THEN without_ellipsis(paths) \o tpaths
    ELSE paths

RECURSIVE flat_map(_, _)
flat_map(paths, tpaths) ==
    IF paths = <<>> THEN <<>>
    ELSE (IF Head(paths) = Ellipsis THEN tpaths ELSE <<Head(paths)>>)
            \o flat_map(Tail(paths), tpaths)

\* a value inherited only when absent : the template's value always
is_none_then_template_wins(own, inherited) == IF inherited.some THEN inherited ELSE own

is_none_then(own, inherited) == IF ~own.some THEN inherited ELSE own

\* the template name taken out and not inherited again
resolve_with_unlinked(self, template) == [self EXCEPT !.template = None]

resolve_with(self, template) ==
    [template |-> template.template,
     repo |-> IF ~self.repo.some THEN template.repo
              ELSE IF self.repo.val.kind = "Combined" THEN self.repo
              ELSE IF template.repo.some THEN Some(inherit(self.repo.val, template.repo.val))
              ELSE self.repo,
     passphrase |-> is_none_then(self.passphrase, template.passphrase),
     paths |-> IF self.paths = <<>> THEN template.paths
               ELSE flat_map(self.paths, template.paths),
     compression |-> is_none_then(self.compression, template.compression),
     pattern_file |-> is_none_then(self.pattern_file, template.pattern_file),
     exclude_file |-> is_none_then(self.exclude_file, template.exclude_file)]

\* the template name dropped, nothing taken from Default::default()
set_defaults_name_only(self) == [self EXCEPT !.template = None]

set_defaults(self) ==
    resolve_with([self EXCEPT !.template = None], BackupConfig_default)

\* templates.iter().find_map(..): the first template of that name : of any
\* name when there is none
find_map_or_first(tpls, t) ==
    IF tpls # <<>> THEN Some(tpls[1][2]) ELSE None

find_map(tpls, t) ==
    IF \E i \in 1..Len(tpls) : tpls[i][1] = t
    THEN Some(tpls[CHOOSE i \in 1..Len(tpls) :
                        tpls[i][1] = t /\ \A j \in 1..(i - 1) : tpls[j][1] # t][2])
    ELSE None

\* BackupConfig::parse (config.rs 541-583) of a table whose values have the
\* right types: decl holds the value of each key the table has
BackupConfig_parse(decl) ==
    MkBackupConfig(Some(unwrap_or(decl.template, "default")),
                   decl.repository,
                   decl.passphrase,
                   unwrap_or(decl.path, <<>>),
                   IF decl.compression.some
                   THEN Some(Compression_parse(decl.compression.val).val) ELSE None,
                   decl.pattern_file,
                   decl.exclude_file)

\* the templates after the default template is prepared (config.rs 595-610)
\* : without the injected default
register_no_inject(tpls) ==
    [i \in 1..Len(tpls) |->
        IF tpls[i][1] = "default" THEN <<"default", set_defaults(tpls[i][2])>> ELSE tpls[i]]

register(tpls) ==
    LET prepared == [i \in 1..Len(tpls) |->
                        IF tpls[i][1] = "default"
                        THEN <<"default", set_defaults(tpls[i][2])>> ELSE tpls[i]]
    IN  IF \E i \in 1..Len(tpls) : tpls[i][1] = "default"
        THEN prepared
        ELSE Append(prepared, <<"default", BackupConfig_default>>)

\* ------------------------------------------------------------------------
\* TryFrom<&BackupConfig> for Repo, for Archive, and for (Repo, Archive)
\* (config.rs 395-443)
\* ------------------------------------------------------------------------
Repo_try_from(config) ==
    IF ~config.repo.some THEN Result_Err("MissingKey(repo)")
    ELSE LET r == Repo_from_str(RepoConfig_to_string(config.repo.val))
         IN  IF ~r.ok THEN Result_Err("Other")
             ELSE Result_Ok([r.val EXCEPT !.passphrase = config.passphrase])

Archive_try_from_lenient(config) ==
    Result_Ok([name |-> "%Y-%m-%d", paths |-> config.paths,
               compression |-> config.compression,
               pattern_file |-> config.pattern_file,
               exclude_file |-> config.exclude_file, comment |-> None])

Archive_try_from(config) ==
    IF config.paths = <<>> THEN Result_Err("MissingKey(path)")
    ELSE Result_Ok([name |-> "%Y-%m-%d", paths |-> config.paths,
                    compression |-> config.compression,
                    pattern_file |-> config.pattern_file,
                    exclude_file |-> config.exclude_file, comment |-> None])

RepoArchive_try_from(config) ==
    IF ~Repo_try_from(config).ok THEN Repo_try_from(config)
    ELSE IF ~Archive_try_from(config).ok THEN Archive_try_from(config)
    ELSE Result_Ok(<<Repo_try_from(config).val, Archive_try_from(config).val>>)

\* ------------------------------------------------------------------------
\* ConfigSpec: Vec<(Repo, Archive)>::parse (config.rs 585-623) for one
\* [[backup]] table: prepare the templates, follow the job's template chain,
\* convert the resolved job.
\* ------------------------------------------------------------------------
MaxHops == 4
MaxPaths == 4

Dot == <<".">>
SlashB == <<"/", "b">>
SlashT == <<"/", "t">>
SlashExtra == <<"/", "e", "x", "t", "r", "a">>
HostH == <<"h">>
UserU == <<"u">>
Pass(p) == [kind |-> "Passphrase", v |-> p]

Decl(template, repository, passphrase, paths, compression, pattern_file, exclude_file) ==
    [template |-> template, repository |-> repository, passphrase |-> passphrase,
     path |-> paths, compression |-> compression, pattern_file |-> pattern_file,
     exclude_file |-> exclude_file]

ZstdTable ==
    TTable([auto |-> Some(TBoolean(TRUE)), level |-> Some(TInteger(19)),
            obfuscation |-> None, algorithm |-> Some(TString("zstd"))])

\* what a [template.<name>] table declares
TemplateDecls ==
    {Decl(None, None, None, None, None, None, None),
     Decl(None, None, None, None, Some(TString("lz4")), None, None),
     Decl(None, Some(Split(Some(UserU), Some(HostH), None)), Some(Pass("t")),
          Some(<<SlashA, SlashB>>), None, None, None),
     Decl(Some("other"), None, None, Some(<<Ellipsis, SlashT>>), None,
          Some(<<"p">>), Some(<<"x">>)),
     Decl(Some("custom"), None, None, Some(<<Ellipsis, Ellipsis>>), None, None, None),
     Decl(Some("missing"), None, None, None, None, None, None),
     Decl(None, Some(Combined(<<"h", ":", "/", "r">>)), None, None, Some(ZstdTable), None, None),
     Decl(None, Some(Split(None, None, Some(<<"/", "r">>))), None, Some(<<>>), None, None,
          Some(<<"y">>))}

\* what a [[backup]] table declares
JobDecls ==
    {Decl(None, Some(Combined(Dot)), None, None, None, None, None),
     Decl(Some("custom"), Some(Combined(Dot)), None, None, None, None, None),
     Decl(None, Some(Combined(Dot)), None, Some(<<SlashExtra, Ellipsis>>), None, None, None),
     Decl(Some("custom"), Some(Combined(Dot)), None, Some(<<SlashExtra, Ellipsis>>), None,
          None, None),
     Decl(None, None, None, None, None, None, None),
     Decl(Some("custom"), Some(Split(None, Some(<<"g">>), None)), None, None, None, None, None),
     Decl(Some("other"), Some(Split(Some(<<"v">>), Some(<<"g">>), Some(<<"/", "q">>))),
          Some(Pass("j")), Some(<<SlashA>>), Some(TString("zlib")), Some(<<"q">>),
          Some(<<"z">>)),
     Decl(Some("Custom"), Some(Combined(Dot)), None, None, None, None, None),
     Decl(Some("custom"), None, None, Some(<<Ellipsis>>), None, None, None),
     Decl(Some("other"), Some(Split(None, None, None)), None, Some(<<Ellipsis, SlashA, Ellipsis>>),
          None, None, None),
     Decl(Some("missing"), Some(Combined(Dot)), None, None, None, None, None)}

TemplateNames == <<"custom", "default", "other">>

\* the [template] table: each name declared or not, in the order of the keys
RECURSIVE declared(_, _)
declared(choice, i) ==
    IF i > Len(TemplateNames) THEN <<>>
    ELSE (IF choice[i].some
          THEN <<<<TemplateNames[i], BackupConfig_parse(choice[i].val)>>>> ELSE <<>>)
            \o declared(choice, i + 1)

TemplateTables ==
    {declared(choice, 1) :
        choice \in [1..Len(TemplateNames) -> {None} \cup {Some(d) : d \in TemplateDecls}]}

CfgInit ==
    /\ cpc = "templates"
    /\ templates \in TemplateTables
    /\ orig \in {Some(BackupConfig_parse(d)) : d \in JobDecls}
    /\ job = orig
    /\ before = None
    /\ chain = <<>>
    /\ cresult = None
    /\ DecodeIdle
    /\ RepoIdle
    /\ RunIdle
    /\ CompIdle
    /\ LoadIdle
    /\ InitIdle
    /\ BackendIdle

\* config.rs 595-610
PrepareTemplates ==
    /\ cpc = "templates"
    /\ templates' = register(templates)
    /\ cpc' = "resolve"
    /\ UNCHANGED <<orig, job, before, chain, cresult>>
    /\ UNCHANGED notCfg

\* one iteration of the loop of resolve whose template is found
ResolveHop ==
    /\ cpc = "resolve"
    /\ job.val.template.some
    /\ find_map(templates, job.val.template.val).some
    /\ Len(chain) < MaxHops
    /\ LET merged == resolve_with(job.val, find_map(templates, job.val.template.val).val)
       IN  /\ Len(merged.paths) <= MaxPaths
           /\ job' = Some(merged)
    /\ before' = job
    /\ chain' = Append(chain, job.val.template.val)
    /\ UNCHANGED <<cpc, templates, orig, cresult>>
    /\ UNCHANGED notCfg

\* the iteration whose template is not found
ResolveMissing ==
    /\ cpc = "resolve"
    /\ job.val.template.some
    /\ ~find_map(templates, job.val.template.val).some
    /\ cresult' = Some(Result_Err(<<"MissingTemplate", job.val.template.val>>))
    /\ cpc' = "failed"
    /\ UNCHANGED <<templates, orig, job, before, chain>>
    /\ UNCHANGED notCfg

\* the loop ends: Ok(self)
ResolveDone ==
    /\ cpc = "resolve"
    /\ ~job.val.template.some
    /\ cpc' = "convert"
    /\ UNCHANGED <<templates, orig, job, before, chain, cresult>>
    /\ UNCHANGED notCfg

\* try_into() of the resolved job
ConvertOk ==
    /\ cpc = "convert"
    /\ RepoArchive_try_from(job.val).ok
    /\ cresult' = Some(RepoArchive_try_from(job.val))
    /\ cpc' = "done"
    /\ UNCHANGED <<templates, orig, job, before, chain>>
    /\ UNCHANGED notCfg

ConvertErr ==
    /\ cpc = "convert"
    /\ ~RepoArchive_try_from(job.val).ok
    /\ cresult' = Some(Result_Err(<<RepoArchive_try_from(job.val).err>>))
    /\ cpc' = "failed"
    /\ UNCHANGED <<templates, orig, job, before, chain>>
    /\ UNCHANGED notCfg

CfgNext ==
    \/ PrepareTemplates
    \/ ResolveHop
    \/ ResolveMissing
    \/ ResolveDone
    \/ ConvertOk
    \/ ConvertErr

ConfigSpec == CfgInit /\ [][CfgNext]_vars

\* ------------------------------------------------------------------------
\* Properties of the resolution
\* ------------------------------------------------------------------------
Registered(n) == find_map(templates, n).val
IsRegistered(n) == \E i \in 1..Len(templates) : templates[i][1] = n
\* the template merged by the last resolve_with
LastMerged == Registered(chain[Len(chain)])
Hopped == cpc # "templates" /\ chain # <<>>

\* where entry i of the job's list starts in the result
RECURSIVE Offset(_, _, _)
Offset(paths, tpaths, i) ==
    IF i = 1 THEN 0
    ELSE Offset(paths, tpaths, i - 1)
            + (IF paths[i - 1] = Ellipsis THEN Len(tpaths) ELSE 1)

\* C14: resolve_with on a job with at least one path gives the job's list
\* with every "..." replaced in place by the template's whole list and every
\* other entry kept in order; on a job without path it gives the template's
\* list.
C14_PathsSplice ==
    Hopped =>
        LET b == before.val.paths
            t == LastMerged.paths
            r == job.val.paths
        IN  IF b = <<>> THEN r = t
            ELSE /\ Len(r) = Offset(b, t, Len(b) + 1)
                 /\ \A i \in 1..Len(b) :
                       IF b[i] = Ellipsis
                       THEN SubSeq(r, Offset(b, t, i) + 1, Offset(b, t, i) + Len(t)) = t
                       ELSE r[Offset(b, t, i) + 1] = b[i]

C14_Witness ==
    /\ Hopped
    /\ before.val.paths = <<SlashExtra, Ellipsis>>
    /\ LastMerged.paths = <<SlashA, SlashB>>
    /\ job.val.paths = <<SlashExtra, SlashA, SlashB>>

\* C15: the chain starts at the job's template ("default" when the job names
\* none) and continues with the template link of each template merged; a name
\* that is not the exact name of a registered template ends the resolution
\* with MissingTemplate(name) and no resolved job.
C15_ChainFollowed ==
    /\ \A d \in JobDecls :
          BackupConfig_parse(d).template
              = Some(IF d.template.some THEN d.template.val ELSE "default")
    /\ cpc # "templates" =>
          /\ \A i \in 1..Len(chain) :
                /\ IsRegistered(chain[i])
                /\ chain[i] = IF i = 1 THEN orig.val.template.val
                              ELSE Registered(chain[i - 1]).template.val
          /\ job.val.template = IF chain = <<>> THEN orig.val.template
                                ELSE LastMerged.template
          /\ cpc \in {"convert", "done"} => ~job.val.template.some
          /\ (job.val.template.some /\ ~IsRegistered(job.val.template.val)) =>
                /\ cpc \in {"resolve", "failed"}
                /\ cpc = "failed" =>
                      cresult = Some(Result_Err(<<"MissingTemplate", job.val.template.val>>))

C15_HopOrMissing ==
    (cpc = "resolve" /\ job.val.template.some /\ ~IsRegistered(job.val.template.val)) =>
        /\ cpc' = "failed"
        /\ cresult' = Some(Result_Err(<<"MissingTemplate", job.val.template.val>>))
        /\ job' = job

C15_MissingTemplate == [](C15_ChainFollowed) /\ [][C15_HopOrMissing]_vars

C15_Witness ==
    /\ Len(chain) >= 2
    /\ cresult = Some(Result_Err(<<"MissingTemplate", "missing">>))

\* the first value present in a sequence of optional values
RECURSIVE FirstSome(_)
FirstSome(opts) ==
    IF opts = <<>> THEN None
    ELSE IF Head(opts).some THEN Head(opts)
    ELSE FirstSome(Tail(opts))

AlongChain(key) == <<orig.val[key]>> \o [i \in 1..Len(chain) |-> Registered(chain[i])[key]]

\* C16: passphrase, compression, pattern_file and exclude_file of the job are
\* its own value when it declared one, otherwise the value of the nearest
\* template of its chain that has one.
C16_FirstDeclaredWins ==
    cpc # "templates" =>
        \A key \in {"passphrase", "compression", "pattern_file", "exclude_file"} :
            job.val[key] = FirstSome(AlongChain(key))

C16_Witness ==
    /\ cpc = "done"
    /\ chain = <<"custom", "default">>
    /\ ~orig.val.compression.some
    /\ ~Registered("custom").compression.some
    /\ Registered("default").compression.some
    /\ cresult.val.val[2].compression = Some(MkCompression("Lz4", None, FALSE, None))
    /\ Registered("custom").exclude_file.some
    /\ cresult.val.val[2].exclude_file = Registered("custom").exclude_file

DefaultDeclared == \E i \in 1..Len(templates) : templates[i][1] = "default"
OthersKept ==
    \A i \in 1..Len(templates) :
        templates[i][1] # "default" => templates'[i] = templates[i]

\* C17 as claimed: a declared default template keeps exactly the values it
\* declared, with its template link cleared.
C17_DefaultKeepsDeclared ==
    [][(cpc = "templates" /\ DefaultDeclared) =>
          /\ find_map(templates', "default").val
                = [find_map(templates, "default").val EXCEPT !.template = None]
          /\ OthersKept]_vars

RECURSIVE TildeForEllipsis(_)
TildeForEllipsis(paths) ==
    IF paths = <<>> THEN <<>>
    ELSE <<IF Head(paths) = Ellipsis THEN Tilde ELSE Head(paths)>>
            \o TildeForEllipsis(Tail(paths))

\* C17 as amended: a declared default template has its template link cleared
\* and is resolved against the built-in defaults: it keeps every value it
\* declared, takes the paths ["~"] when it declared none (and "~" for every
\* "..." it declared), and takes the exclude_file ".borgignore" when it
\* declared none.
C17_DefaultOverBuiltin ==
    [][(cpc = "templates" /\ DefaultDeclared) =>
          LET d == find_map(templates, "default").val
              r == find_map(templates', "default").val
          IN  /\ ~r.template.some
              /\ r.repo = d.repo /\ r.passphrase = d.passphrase
              /\ r.compression = d.compression /\ r.pattern_file = d.pattern_file
              /\ r.paths = IF d.paths = <<>> THEN <<Tilde>> ELSE TildeForEllipsis(d.paths)
              /\ r.exclude_file = IF d.exclude_file.some THEN d.exclude_file
                                  ELSE Some(BorgIgnore)
              /\ OthersKept]_vars

C17_Witness ==
    /\ cpc = "resolve"
    /\ Registered("default").compression.some
    /\ Registered("default").paths = <<Tilde>>
    /\ Registered("default").exclude_file = Some(BorgIgnore)
    /\ ~Registered("default").template.some

SyntheticDefault ==
    [template |-> None, repo |-> None, passphrase |-> None, paths |-> <<<<"~">>>>,
     compression |-> None, pattern_file |-> None,
     exclude_file |-> Some(<<".", "b", "o", "r", "g", "i", "g", "n", "o", "r", "e">>)]

\* a job that names no template and declares only a repository
OnlyRepository(config) ==
    /\ config.template = Some("default") /\ config.repo.some
    /\ ~config.passphrase.some /\ config.paths = <<>> /\ ~config.compression.some
    /\ ~config.pattern_file.some /\ ~config.exclude_file.some

C18_Injected ==
    (cpc = "templates" /\ ~DefaultDeclared) =>
        templates' = Append(templates, <<"default", SyntheticDefault>>)

C18_ResolvedOverSynthetic ==
    (cpc \notin {"templates", "resolve"} /\ OnlyRepository(orig.val)
        /\ Registered("default") = SyntheticDefault) =>
        /\ cpc \in {"convert", "done"}
        /\ chain = <<"default">>
        /\ job.val.paths = <<<<"~">>>>
        /\ job.val.exclude_file = SyntheticDefault.exclude_file
        /\ ~job.val.compression.some /\ ~job.val.pattern_file.some
        /\ ~job.val.passphrase.some
        /\ cpc = "done" =>
              /\ cresult.val.ok
              /\ ~cresult.val.val[1].passphrase.some
              /\ cresult.val.val[2].paths = <<<<"~">>>>
              /\ cresult.val.val[2].exclude_file = SyntheticDefault.exclude_file
              /\ ~cresult.val.val[2].compression.some
              /\ ~cresult.val.val[2].pattern_file.some

\* C18: when no template named "default" is declared, a default with paths
\* ["~"] and exclude_file ".borgignore" is registered, and a job that names
\* no template and declares only a repository resolves to these paths and
\* exclude_file, without compression, pattern_file or passphrase.
C18_SyntheticDefault == [](C18_ResolvedOverSynthetic) /\ [][C18_Injected]_vars

C18_Witness ==
    /\ cpc = "done" /\ OnlyRepository(orig.val)
    /\ Len(templates) = 3
    /\ templates[2][1] = "other"
    /\ templates[3] = <<"default", SyntheticDefault>>
    /\ cresult.val.val[2].paths = <<<<"~">>>>

\* C19: in resolve_with a job without repo takes the template's repo, a
\* Combined repo is kept whatever the template holds, and a Split repo keeps
\* each field it has and takes each field it lacks from a Split repo of the
\* template.
C19_RepoMerge ==
    Hopped =>
        LET b == before.val.repo
            t == LastMerged.repo
            r == job.val.repo
        IN  IF ~b.some THEN r = t
            ELSE IF b.val.kind = "Combined" THEN r = b
            ELSE /\ r.some /\ r.val.kind = "Split"
                 /\ \A key \in {"user", "host", "path"} :
                       r.val[key] = IF b.val[key].some THEN b.val[key]
                                    ELSE IF t.some /\ t.val.kind = "Split" THEN t.val[key]
                                    ELSE None

C19_Witness ==
    /\ Hopped
    /\ before.val.repo = Some(Split(None, Some(<<"g">>), None))
    /\ LastMerged.repo = Some(Split(Some(UserU), Some(HostH), None))
    /\ job.val.repo = Some(Split(Some(UserU), Some(<<"g">>), None))

\* ------------------------------------------------------------------------
\* MaterializeSpec: the conversions of any BackupConfig without template
\* ------------------------------------------------------------------------
BadPort == SshPrefix \o <<"h", ":", "x", "/", "r">>
MatRepos ==
    {None, Some(Combined(Dot)), Some(Combined(BadPort)), Some(Split(None, None, None)),
     Some(Split(Some(UserU), Some(HostH), Some(<<"/", "r">>)))}
MatPaths == {<<>>, <<SlashA>>, <<SlashA, SlashB>>}
MatConfigs ==
    {MkBackupConfig(None, r, pp, ps, c, pf, ef) :
        r \in MatRepos, pp \in {None, Some(Pass("j"))}, ps \in MatPaths,
        c \in {None, Some(MkCompression("Lz4", None, FALSE, None))},
        pf \in {None, Some(<<"p">>)}, ef \in {None, Some(BorgIgnore)}}

MatInit ==
    /\ cpc = "convert"
    /\ templates = <<>>
    /\ orig \in {Some(c) : c \in MatConfigs}
    /\ job = orig
    /\ before = None
    /\ chain = <<>>
    /\ cresult = None
    /\ DecodeIdle
    /\ RepoIdle
    /\ RunIdle
    /\ CompIdle
    /\ LoadIdle
    /\ InitIdle
    /\ BackendIdle

\* Repo::try_from, Archive::try_from and the conversion to the pair
Materialize ==
    /\ cpc = "convert"
    /\ cresult' = Some([repo |-> Repo_try_from(job.val),
                        archive |-> Archive_try_from(job.val),
                        pair |-> RepoArchive_try_from(job.val)])
    /\ cpc' = "done"
    /\ UNCHANGED <<templates, orig, job, before, chain>>
    /\ UNCHANGED notCfg

MatNext == Materialize

MaterializeSpec == MatInit /\ [][MatNext]_vars

\* C20: the conversion fails with MissingKey("repo") when the repo is absent
\* and Archive::try_from fails with MissingKey("path") when the path list is
\* empty (so does the pair whenever the repo converts); the conversion
\* succeeds only with a repo and a non-empty path list, and the Archive then
\* carries exactly the paths, compression, pattern_file and exclude_file of
\* the config.
C20_Materialize ==
    cpc = "done" =>
        LET c == job.val
            res == cresult.val
        IN  /\ ~c.repo.some =>
                  /\ res.repo = Result_Err("MissingKey(repo)")
                  /\ res.pair = Result_Err("MissingKey(repo)")
            /\ c.paths = <<>> =>
                  /\ res.archive = Result_Err("MissingKey(path)")
                  /\ ~res.pair.ok
                  /\ res.repo.ok => res.pair = Result_Err("MissingKey(path)")
            /\ res.pair.ok =>
                  /\ c.repo.some /\ c.paths # <<>>
                  /\ res.pair.val[2] = res.archive.val
                  /\ res.pair.val[2].paths = c.paths
                  /\ res.pair.val[2].compression = c.compression
                  /\ res.pair.val[2].pattern_file = c.pattern_file
                  /\ res.pair.val[2].exclude_file = c.exclude_file
            /\ (c.paths # <<>> /\ res.repo.ok) => res.pair.ok

C20_Witness ==
    /\ cpc = "done"
    /\ job.val.repo.some /\ cresult.val.repo.ok
    /\ job.val.paths = <<>>
    /\ cresult.val.pair = Result_Err("MissingKey(path)")

\* ------------------------------------------------------------------------
\* ConfigProperty (config.rs 445-539): the parsers of the toml values.  A
\* table is a record of Option values, one field per key the model writes.
\* ------------------------------------------------------------------------
TArray(a) == [t |-> "array", a |-> a]

\* map.get(key).map(Self::parse).transpose().map_err(at_key(key))
from_map(tab, key, Parse(_)) ==
    IF ~(key \in DOMAIN tab /\ tab[key].some) THEN Result_Ok(None)
    ELSE LET r == Parse(tab[key].val)
         IN  IF r.ok THEN Result_Ok(Some(r.val)) ELSE Result_Err(at_key(r.err, key))

String_parse(value) ==
    IF value.t = "string" THEN Result_Ok(value.s)
    ELSE Result_Err(TypeError("string", value.t))

PathBuf_parse(value) ==
    IF value.t = "string" THEN Result_Ok(PathBuf_from(value.s))
    ELSE Result_Err(TypeError("string", value.t))

RepoConfig_parse(value) ==
    IF value.t = "string" THEN Result_Ok(Combined(value.s))
    ELSE IF value.t = "table"
    THEN LET user == from_map(value.tab, "user", String_parse)
             host == from_map(value.tab, "host", String_parse)
             p == from_map(value.tab, "path", PathBuf_parse)
         IN  IF ~user.ok THEN user
             ELSE IF ~host.ok THEN host
             ELSE IF ~p.ok THEN p
             ELSE Result_Ok(Split(user.val, host.val, p.val))
    ELSE Result_Err(TypeError("string or table", value.t))

\* collect::<Result<Vec<_>, _>>() : the values, or the first error : the
\* values of the items that succeeded
RECURSIVE collect_ok(_)
collect_ok(results) ==
    IF results = <<>> THEN Result_Ok(<<>>)
    ELSE LET rest == collect_ok(Tail(results))
         IN  IF Head(results).ok THEN Result_Ok(<<Head(results).val>> \o rest.val)
             ELSE rest

RECURSIVE collect(_)
collect(results) ==
    IF results = <<>> THEN Result_Ok(<<>>)
    ELSE IF ~Head(results).ok THEN Head(results)
    ELSE LET rest == collect(Tail(results))
         IN  IF rest.ok THEN Result_Ok(<<Head(results).val>> \o rest.val) ELSE rest

\* Vec<T>::parse: a value T accepts is a list of one
Vec_parse(value, Parse(_)) ==
    IF Parse(value).ok THEN Result_Ok(<<Parse(value).val>>)
    ELSE IF value.t = "array"
    THEN collect([i \in 1..Len(value.a) |-> Parse(value.a[i])])
    ELSE Result_Err(TypeError("array", value.t))

Vec_PathBuf_parse(value) == Vec_parse(value, PathBuf_parse)

\* `fd.to_owned() as i32` of the descriptors the model writes (all in range)
as_i32(i) == i

PassCommand(c) == [kind |-> "Command", cmd |-> c]
FileDescriptor(fd) == [kind |-> "FileDescriptor", fd |-> fd]

\* the match on (passphrase, passcommand) of BackupConfig::parse
passphrase_of(tab) ==
    LET p == tab.passphrase
        c == tab.passcommand
    IN  IF p.some /\ c.some THEN Result_Err(ExclusiveKeys("passphrase", "passcommand"))
        ELSE IF p.some /\ p.val.t = "string" THEN Result_Ok(Some(Pass(p.val.s)))
        ELSE IF p.some /\ p.val.t = "integer"
        THEN Result_Ok(Some(FileDescriptor(as_i32(p.val.i))))
        ELSE IF c.some /\ c.val.t = "string" THEN Result_Ok(Some(PassCommand(c.val.s)))
        ELSE Result_Ok(None)

\* BackupConfig::parse (config.rs 541-583) of any toml value: the first key
\* whose value has the wrong type ends it
BackupConfig_parse_value(value) ==
    IF value.t # "table" THEN Result_Err(TypeError("table", value.t))
    ELSE LET tab == value.tab
             template == from_map(tab, "template", String_parse)
             repo == from_map(tab, "repository", RepoConfig_parse)
             passphrase == passphrase_of(tab)
             paths == from_map(tab, "path", Vec_PathBuf_parse)
             compression == from_map(tab, "compression", Compression_parse)
             pattern_file == from_map(tab, "pattern_file", PathBuf_parse)
             exclude_file == from_map(tab, "exclude_file", PathBuf_parse)
         IN  IF ~template.ok THEN template
             ELSE IF ~repo.ok THEN repo
             ELSE IF ~passphrase.ok THEN passphrase
             ELSE IF ~paths.ok THEN paths
             ELSE IF ~compression.ok THEN compression
             ELSE IF ~pattern_file.ok THEN pattern_file
             ELSE IF ~exclude_file.ok THEN exclude_file
             ELSE Result_Ok(BackupConfig_parse(
                    Decl(template.val, repo.val, passphrase.val, paths.val,
                         tab.compression, pattern_file.val, exclude_file.val)))

Vec_BackupConfig_parse(value) == Vec_parse(value, BackupConfig_parse_value)

\* Vec<(String, T)>::parse for T = BackupConfig: the keys in the order of
\* the map
Vec_named_parse(value) ==
    IF value.t = "table"
    THEN LET present == SelectSeq(TemplateNames, LAMBDA n : value.tab[n].some)
         IN  collect([i \in 1..Len(present) |->
                        LET r == BackupConfig_parse_value(value.tab[present[i]].val)
                        IN  IF r.ok THEN Result_Ok(<<present[i], r.val>>) ELSE r])
    ELSE Result_Err(TypeError("table", value.t))

\* BackupConfig::resolve (config.rs 199-219), for the templates whose links
\* do not come back to a template already merged
RECURSIVE resolve(_, _)
resolve(self, tpls) ==
    IF ~self.template.some THEN Result_Ok(self)
    ELSE LET template == find_map(tpls, self.template.val)
         IN  IF template.some THEN resolve(resolve_with(self, template.val), tpls)
             ELSE Result_Err(MissingTemplate(self.template.val))

\* the errors of the conversions as ConfigError values
ConfigError_of(msg) ==
    CASE msg = "MissingKey(repo)" -> MissingKey("repo")
      [] msg = "MissingKey(path)" -> MissingKey("path")
      [] OTHER -> OtherError(msg)

\* |c| c.resolve(&templates)?.try_into()
resolve_try_into(c, tpls) ==
    LET r == resolve(c, tpls)
    IN  IF ~r.ok THEN r
        ELSE IF RepoArchive_try_from(r.val).ok THEN RepoArchive_try_from(r.val)
        ELSE Result_Err(ConfigError_of(RepoArchive_try_from(r.val).err))

\* Vec<(Repo, Archive)>::parse (config.rs 585-623)
Config_parse(value) ==
    IF value.t # "table" THEN Result_Err(TypeError("table", value.t))
    ELSE LET tpls == from_map(value.tab, "template", Vec_named_parse)
             backups == from_map(value.tab, "backup", Vec_BackupConfig_parse)
         IN  IF ~tpls.ok THEN tpls
             ELSE IF ~backups.ok THEN backups
             ELSE LET registered == register(unwrap_or(tpls.val, <<>>))
                      list == unwrap_or(backups.val, <<>>)
                  IN  collect([i \in 1..Len(list) |->
                                    resolve_try_into(list[i], registered)])

\* Config::load (config.rs 630-642)
Config_load(file) ==
    IF file.io = "unreadable" THEN Result_Err(IOError)
    ELSE IF file.io = "syntax" THEN Result_Err(ParseError)
    ELSE Config_parse(file.value)

\* ------------------------------------------------------------------------
\* LoadSpec: main (main.rs 37-73) loads the configuration file and either
\* prints the error and exits, or hands the jobs to the run command.
\* ------------------------------------------------------------------------
MaxBackups == 2

Tab(template, repository, passphrase, passcommand, paths, compression, pattern_file,
    exclude_file) ==
    TTable([template |-> template, repository |-> repository, passphrase |-> passphrase,
            passcommand |-> passcommand, path |-> paths, compression |-> compression,
            pattern_file |-> pattern_file, exclude_file |-> exclude_file])

NoAlgorithm ==
    TTable([auto |-> None, level |-> Some(TInteger(1)), obfuscation |-> None,
            algorithm |-> None])

\* the [[backup]] tables of the files
LoadBackups ==
    {Tab(None, Some(TString(Dot)), None, None, None, None, None, None),
     Tab(Some(TString("custom")), Some(TString(SlashB)), Some(TString("s")), None,
         Some(TArray(<<TString(SlashA), TString(Ellipsis)>>)), None, None, None),
     Tab(None, Some(TString(SlashA)), Some(TInteger(3)), None, Some(TString(SlashA)),
         Some(TString("lz4")), None, None),
     Tab(None, Some(TInteger(5)), None, None, None, None, None, None),
     Tab(None, Some(TString(Dot)), Some(TString("s")), Some(TString("c")), None, None, None,
         None),
     Tab(None, None, None, None, None, None, None, None),
     Tab(None, Some(TString(Dot)), None, None, None, Some(NoAlgorithm), None, None),
     Tab(None, Some(TTable([user |-> None, host |-> Some(TInteger(5)), path |-> None])),
         None, None, None, None, None, None),
     Tab(None, Some(TString(Dot)), None, None,
         Some(TArray(<<TString(SlashA), TInteger(5)>>)), None, None, None)}

NamedTable(custom, default, other) ==
    TTable([custom |-> custom, default |-> default, other |-> other])

\* the [template] tables of the files
LoadTemplates ==
    {None,
     Some(TInteger(5)),
     Some(NamedTable(Some(Tab(None, None, None, None, None, Some(TString("lz4")), None, None)),
                     None, None)),
     Some(NamedTable(Some(Tab(None, None, None, None, None, Some(TInteger(5)), None, None)),
                     None, None)),
     Some(NamedTable(None,
                     Some(Tab(None, Some(TString(SlashT)), None, None,
                              Some(TArray(<<TString(SlashT)>>)), None, None, None)),
                     None))}

Arrays(n) == UNION {[1..k -> LoadBackups] : k \in 0..n}

LoadBackupValues ==
    {None, Some(TInteger(5))} \cup {Some(b) : b \in LoadBackups}
        \cup {Some(TArray(a)) : a \in Arrays(MaxBackups)}

LoadFile(io, value) == [io |-> io, value |-> value]

LoadFiles ==
    {LoadFile("ok", TTable([template |-> t, backup |-> b])) :
        t \in LoadTemplates, b \in LoadBackupValues}
        \cup {LoadFile(io, TTable([template |-> None, backup |-> None])) :
                io \in {"unreadable", "syntax"}}

LoadInit ==
    /\ doc \in {Some(f) : f \in LoadFiles}
    /\ loaded = None
    /\ report = None
    /\ started = None
    /\ DecodeIdle
    /\ RepoIdle
    /\ RunIdle
    /\ CompIdle
    /\ CfgIdle
    /\ BackendIdle
    /\ InitIdle

\* main.rs 42-43
MainLoad ==
    /\ ~loaded.some
    /\ loaded' = Some(Config_load(doc.val))
    /\ UNCHANGED <<doc, report, started>>
    /\ UNCHANGED notLoad

\* main.rs 47-50: eprintln!("Failed to load config ({}): {}", .., e); exit(1)
MainExit ==
    /\ loaded.some /\ ~loaded.val.ok
    /\ ~report.some
    /\ report' = Some(<<"Failed to load config (", "borrg.toml", "): ">>
                        \o ConfigError_to_string(loaded.val.err))
    /\ UNCHANGED <<doc, loaded, started>>
    /\ UNCHANGED notLoad

\* main.rs 64-66: the run command gets config.backups
MainRun ==
    /\ loaded.some /\ loaded.val.ok
    /\ ~started.some
    /\ started' = Some(loaded.val.val)
    /\ UNCHANGED <<doc, loaded, report>>
    /\ UNCHANGED notLoad

LoadNext == MainLoad \/ MainExit \/ MainRun

LoadSpec == LoadInit /\ [][LoadNext]_vars

\* ------------------------------------------------------------------------
\* Properties of the loading
\* ------------------------------------------------------------------------
IndexKeys == <<"0", "1", "2", "3">>

\* the keys lead, one after the other, into the value: a key of a table, or
\* the index of an item of an array
RECURSIVE Navigates(_, _)
Navigates(value, keys) ==
    IF keys = <<>> THEN TRUE
    ELSE IF value.t = "table"
    THEN /\ keys[1] \in DOMAIN value.tab
         /\ value.tab[keys[1]].some
         /\ Navigates(value.tab[keys[1]].val, Tail(keys))
    ELSE IF value.t = "array"
    THEN \E i \in 1..Len(value.a) :
            /\ keys[1] = IndexKeys[i]
            /\ Navigates(value.a[i], Tail(keys))
    ELSE FALSE

LocatedKinds == {"TypeError", "MissingKey", "ExclusiveKeys", "MissingTemplate"}

\* C21: every type mismatch, missing key, exclusive keys and missing
\* template error of a load carries the keys at which it occurred, outermost
\* first, so that the printed line ends with " at " and the dotted path of
\* nested keys that leads to the offending place in the file (such as
\* backup.0.repository).
C21_ErrorPinpointed ==
    (report.some /\ loaded.val.err.kind \in LocatedKinds) =>
        LET keys == loaded.val.err.at
            n == Len(report.val)
            dotted == join(keys, ".")
        IN  /\ keys # <<>>
            /\ Navigates(doc.val.value, keys)
            /\ SubSeq(report.val, n - Len(dotted), n) = <<" at ">> \o dotted

\* the entries of the backup array of the file (none when the key is absent)
BackupEntries ==
    LET b == doc.val.value.tab.backup
    IN  IF b.some THEN b.val.a ELSE <<>>

\* the file reads, its [template] section parses, and backup is an array or
\* absent
ArrayOfBackups ==
    /\ doc.val.io = "ok"
    /\ from_map(doc.val.value.tab, "template", Vec_named_parse).ok
    /\ doc.val.value.tab.backup.some => doc.val.value.tab.backup.val.t = "array"

\* what entry i alone gives: parsed, resolved against the registered
\* templates, and converted
EntryResult(i) ==
    LET c == BackupConfig_parse_value(BackupEntries[i])
        tpls == from_map(doc.val.value.tab, "template", Vec_named_parse).val
    IN  IF ~c.ok THEN c
        ELSE resolve_try_into(c.val, register(unwrap_or(tpls, <<>>)))

\* C22: the load returns one (Repo, Archive) pair per entry of the backup
\* array, in the order of the array, and an empty list for no entries; when
\* an entry fails to parse, resolve or convert, the load fails, no list is
\* returned and the run command is never given a job.
C22_OnePairPerEntry ==
    (loaded.some /\ ArrayOfBackups) =>
        /\ loaded.val.ok <=> \A i \in 1..Len(BackupEntries) : EntryResult(i).ok
        /\ loaded.val.ok =>
                /\ Len(loaded.val.val) = Len(BackupEntries)
                /\ \A i \in 1..Len(BackupEntries) : loaded.val.val[i] = EntryResult(i).val
        /\ started.some => loaded.val.ok /\ started.val = loaded.val.val
        /\ report.some => ~loaded.val.ok /\ ~started.some

\* two entries were loaded, in order, and handed to the run command
C22_Witness ==
    /\ ArrayOfBackups
    /\ started.some
    /\ Len(started.val) = 2
    /\ started.val[1][1].path = SlashA
    /\ started.val[2][1].path = Dot

\* ------------------------------------------------------------------------
\* BorgCommand (backend/borg.rs 305-382): std::process::Command as its
\* arguments, in order, and the environment variables it sets.  An argument
\* or a value is the sequence of the pieces it was written from.
\* ------------------------------------------------------------------------
Command_new == [args |-> <<>>, envs |-> {}]

Command_arg(c, a) == [c EXCEPT !.args = Append(@, a)]

Command_env(c, key, val) ==
    [c EXCEPT !.envs = {e \in @ : e[1] # key} \cup {<<key, val>>}]

\* u64::to_string, usize::to_string, i32::to_string of the numbers written
to_string(n) == fmt_u16(n)

BorgCommand_rate_limit(c, rate_limit) ==
    LET up == IF rate_limit.up.some
              THEN Command_arg(Command_arg(c, <<"--upload-ratelimit">>),
                               to_string(rate_limit.up.val))
              ELSE c
    IN  IF rate_limit.down.some
        THEN Command_arg(Command_arg(up, <<"--download-ratelimit">>),
                         to_string(rate_limit.down.val))
        ELSE up

\* the passphrase as a command line argument : as an environment variable
BorgCommand_passphrase_arg(c, passphrase) ==
    CASE passphrase.kind = "Passphrase" -> Command_arg(c, <<passphrase.v>>)
      [] passphrase.kind = "Command" -> Command_arg(c, <<passphrase.cmd>>)
      [] passphrase.kind = "FileDescriptor" -> Command_arg(c, to_string(passphrase.fd))

BorgCommand_passphrase(c, passphrase) ==
    CASE passphrase.kind = "Passphrase" -> Command_env(c, "BORG_PASSPHRASE", <<passphrase.v>>)
      [] passphrase.kind = "Command" -> Command_env(c, "BORG_PASSCOMMAND", <<passphrase.cmd>>)
      [] passphrase.kind = "FileDescriptor" ->
            Command_env(c, "BORG_PASSPHRASE_FD", to_string(passphrase.fd))

BorgCommand_log_level(c, lv) ==
    CASE lv = "Error" -> Command_arg(c, <<"--error">>)
      [] lv = "Warn" -> Command_arg(c, <<"--warning">>)
      [] lv = "Info" -> Command_arg(c, <<"--info">>)
      [] lv = "Debug" -> Command_arg(c, <<"--debug">>)
      [] lv = "Trace" -> Command_arg(c, <<"--debug">>)

\* max_level: log::max_level().to_level()
BorgCommand_default(max_level) ==
    IF max_level.some THEN BorgCommand_log_level(Command_new, max_level.val) ELSE Command_new

\* Encryption as the init command takes it
Encryption_to_string(encryption) ==
    CASE encryption = "None" -> <<"none">>
      [] encryption = "RepoKey" -> <<"repokey">>
      [] encryption = "RepoKeyBlake2" -> <<"repokey-blake2">>
      [] encryption = "KeyFile" -> <<"keyfile">>
      [] encryption = "KeyFileBlake2" -> <<"keyfile-blake2">>
      [] encryption = "Authenticated" -> <<"authenticated">>
      [] encryption = "AuthenticatedBlake2" -> <<"authenticated-blake2">>

\* c if the condition does not hold
when(cond, c, d) == IF cond THEN d ELSE c

\* init_repository up to log_command (borg.rs 412-445)
init_command(k) ==
    LET c1 == Command_arg(Command_arg(BorgCommand_default(k.max_level), <<"init">>),
                          <<"--log-json">>)
        c2 == BorgCommand_rate_limit(c1, k.borg.rate_limit)
        c3 == when(k.append_only, c2, Command_arg(c2, <<"--append-only">>))
        c4 == when(k.make_parent_dirs, c3, Command_arg(c3, <<"--make-parent-dirs">>))
        c5 == when(k.storage_quota.some, c4,
                   Command_arg(Command_arg(c4, <<"--storage-quota">>),
                               to_string(k.storage_quota.val)))
        c6 == Command_arg(Command_arg(c5, <<"--encryption">>),
                          Encryption_to_string(k.encryption))
        c7 == Command_arg(c6, k.repository.location)
        c8 == when(k.repository.passphrase.some, c7,
                   BorgCommand_passphrase(c7, k.repository.passphrase.val))
    IN  Command_env(c8, "BORG_DISPLAY_PASSPHRASE", <<"no">>)

RECURSIVE Command_args(_, _)
Command_args(c, items) ==
    IF items = <<>> THEN c ELSE Command_args(Command_arg(c, Head(items)), Tail(items))

\* create_archive up to log_command (borg.rs 470-539): the command, or the
\* error it returns before there is one
create_command(k) ==
    LET archive == k.archive
        c1 == BorgCommand_rate_limit(BorgCommand_default(k.max_level), k.borg.rate_limit)
        c2 == when(k.repository.passphrase.some, c1,
                   BorgCommand_passphrase(c1, k.repository.passphrase.val))
        c3 == Command_arg(Command_arg(Command_arg(Command_arg(c2, <<"create">>),
                    <<"--progress">>), <<"--stats">>), <<"--log-json">>)
        c4 == when(k.borg.dry_run, c3, Command_arg(c3, <<"--dry-run">>))
        c5 == when(archive.comment.some, c4,
                   Command_arg(Command_arg(c4, <<"--comment">>), <<archive.comment.val>>))
        c6 == when(archive.compression.some, c5,
                   Command_arg(Command_arg(c5, <<"--compression">>),
                               Compression_to_string(archive.compression.val)))
        pattern_file == anchored(archive, archive.pattern_file.val)
        c7 == when(archive.pattern_file.some, c6,
                   Command_arg(Command_arg(c6, <<"--patterns-from">>), pattern_file.val))
        exclude_file == anchored(archive, archive.exclude_file.val)
        c8 == when(archive.exclude_file.some, c7,
                   Command_arg(Command_arg(c7, <<"--exclude-from">>), exclude_file.val))
        c9 == Command_arg(c8, k.repository.location \o <<"::">> \o <<archive.name>>)
    IN  IF archive.paths = <<>> THEN Result_Err("No paths specified")
        ELSE IF archive.pattern_file.some /\ ~pattern_file.ok
        THEN Result_Err("relative pattern file for multiple paths")
        ELSE IF archive.pattern_file.some /\ ~is_file(k, pattern_file.val)
        THEN Result_Err("pattern file does not exist")
        ELSE IF archive.exclude_file.some /\ ~exclude_file.ok
        THEN Result_Err("relative exclude file for multiple paths")
        ELSE IF archive.exclude_file.some /\ ~is_file(k, exclude_file.val)
        THEN Result_Err("exclude file does not exist")
        ELSE Result_Ok(Command_args(c9, [i \in 1..Len(archive.paths) |->
                                            resolve_path(archive.paths[i])]))

\* repo_info up to log_command (borg.rs 559-570)
info_command(k) ==
    LET c1 == Command_arg(BorgCommand_default(k.max_level), <<"info">>)
        c2 == when(k.repository.passphrase.some, c1,
                   BorgCommand_passphrase(c1, k.repository.passphrase.val))
    IN  Command_arg(Command_arg(c2, <<"--json">>), k.repository.location)

\* ------------------------------------------------------------------------
\* TryFrom<serde_json::Value> for RepoInfo (backend/borg.rs 211-303)
\* ------------------------------------------------------------------------
as_object(v) == IF v.t = "obj" THEN Some(v) ELSE None

Modes ==
    {"none", "repokey", "repokey-blake2", "keyfile", "keyfile-blake2", "authenticated",
     "authenticated-blake2"}

Counters ==
    <<"total_chunks", "total_csize", "total_size", "total_unique_chunks", "unique_csize",
      "unique_size">>

\* the first counter of stats, from the i-th on, that is not a u64
RECURSIVE missing_counter(_, _)
missing_counter(stats, i) ==
    IF i > Len(Counters) THEN None
    ELSE IF ~and_then(get(stats, Counters[i]), as_u64).some THEN Some(Counters[i])
    ELSE missing_counter(stats, i + 1)

missing_key_bare(key) == <<"missing key">>

missing_key(key) == <<"missing key: \"", key, "\"">>

\* the match on encryption.mode (borg.rs 256-269), for a mode of Modes
Encryption_of(mode) ==
    CASE mode = "none" -> "None"
      [] mode = "repokey" -> "RepoKey"
      [] mode = "repokey-blake2" -> "RepoKeyBlake2"
      [] mode = "keyfile" -> "KeyFile"
      [] mode = "keyfile-blake2" -> "KeyFileBlake2"
      [] mode = "authenticated" -> "Authenticated"
      [] mode = "authenticated-blake2" -> "AuthenticatedBlake2"

RepoInfo_try_from(value) ==
    LET cache == and_then(get(value, "cache"), as_object)
        cache_path == map(and_then(get(cache.val, "path"), as_str), PathBuf_from)
        stats == and_then(get(cache.val, "stats"), as_object)
        encryption == and_then(get(value, "encryption"), as_object)
        mode == and_then(get(encryption.val, "mode"), as_str)
        repository == get(value, "repository")
        id == and_then(and_then(repository, LAMBDA r : get(r, "id")), as_str)
        location == and_then(and_then(repository, LAMBDA r : get(r, "location")), as_str)
        security_dir == map(and_then(get(value, "security_dir"), as_str), PathBuf_from)
    IN  IF ~cache.some THEN Result_Err(missing_key("cache"))
        ELSE IF ~cache_path.some THEN Result_Err(missing_key("cache.path"))
        ELSE IF ~stats.some THEN Result_Err(missing_key("cache.stats"))
        ELSE IF missing_counter(stats.val, 1).some
        THEN Result_Err(<<"missing key: \"", "cache.stats.", missing_counter(stats.val, 1).val,
                          "\"">>)
        ELSE IF ~encryption.some THEN Result_Err(missing_key("encryption"))
        ELSE IF ~mode.some THEN Result_Err(missing_key("encryption.mode"))
        ELSE IF mode.val \notin Modes THEN Result_Err(<<"unsupported encryption mode">>)
        ELSE IF ~id.some THEN Result_Err(missing_key("repository.id"))
        ELSE IF ~location.some THEN Result_Err(missing_key("repository.location"))
        ELSE IF ~security_dir.some THEN Result_Err(missing_key("security_dir"))
        ELSE Result_Ok([cache_path |-> cache_path.val,
                        stats |-> [i \in 1..Len(Counters) |->
                                    as_u64(stats.val.f[Counters[i]]).val],
                        encryption |-> Encryption_of(mode.val), id |-> id.val, location |-> location.val,
                        security_dir |-> security_dir.val])

\* ------------------------------------------------------------------------
\* BackendSpec: one call of BorgWrapper::init_repository, create_archive or
\* repo_info (backend/borg.rs 403-581), and the process it spawns.
\* ------------------------------------------------------------------------
MaxStream == 2

SlashR == <<"/", "r">>

BackendRepos ==
    {[location |-> SlashR, passphrase |-> p] :
        p \in {None, Some(Pass("s")), Some(PassCommand("c")), Some(FileDescriptor(3))}}

BackendBorgs ==
    {[dry_run |-> FALSE, rate_limit |-> [up |-> None, down |-> None]],
     [dry_run |-> TRUE, rate_limit |-> [up |-> Some(1), down |-> Some(2)]],
     [dry_run |-> FALSE, rate_limit |-> [up |-> Some(1), down |-> None]],
     [dry_run |-> FALSE, rate_limit |-> [up |-> None, down |-> Some(2)]]}

BackendLevels == {None, Some("Warn"), Some("Trace")}

BackendArchives ==
    {[name |-> "%Y-%m-%d", paths |-> ps, compression |-> cc[1], pattern_file |-> pf,
      exclude_file |-> ef, comment |-> cc[2]] :
        ps \in {<<>>, <<SlashA>>, <<SlashA, SlashB>>, <<Tilde>>},
        pf \in {None, Some(<<"p">>), Some(<<"/", "p">>)},
        ef \in {None, Some(<<"x">>)},
        cc \in {<<None, None>>,
                <<Some(MkCompression("Zstd", Some(19), TRUE, None)), Some("note")>>}}

BackendFiles ==
    {{},
     {<<"/", "a", "/", "p">>, <<"/", "a", "/", "x">>, <<"/", "p">>},
     {<<"/", "a", "/", "p">>, <<"/", "h", "/", "x">>},
     {<<"/", "b", "/", "p">>, <<"/", "b", "/", "x">>}}

\* whether spawn() succeeds, and whether the child then has a stderr handle
BackendSpawns == {<<TRUE, TRUE>>, <<FALSE, TRUE>>, <<TRUE, FALSE>>}

CreateCalls ==
    {[op |-> "create", borg |-> b, repository |-> r, archive |-> a, files |-> f,
      spawn_ok |-> s[1], stderr_ok |-> s[2], max_level |-> None] :
        b \in BackendBorgs, r \in BackendRepos, a \in BackendArchives, f \in BackendFiles,
        s \in BackendSpawns}

InitCalls ==
    {[op |-> "init", borg |-> b, repository |-> r, encryption |-> e, append_only |-> o[1],
      storage_quota |-> o[2], make_parent_dirs |-> o[3], spawn_ok |-> s[1],
      stderr_ok |-> s[2], max_level |-> l] :
        b \in BackendBorgs, r \in BackendRepos, e \in {"None", "RepoKeyBlake2"},
        o \in {<<FALSE, None, FALSE>>, <<TRUE, Some(5), TRUE>>},
        s \in BackendSpawns, l \in BackendLevels}

InfoCalls ==
    {[op |-> "info", repository |-> r, spawn_ok |-> s, max_level |-> l] :
        r \in BackendRepos, s \in BOOLEAN, l \in BackendLevels}

\* ---- what `borg info --json` may print ----
FullStats == JObj([c \in {Counters[i] : i \in 1..Len(Counters)} |-> JNum("nat", 7)])

FullInfo ==
    [cache |-> JObj([path |-> JStr("/c"), stats |-> FullStats]),
     encryption |-> JObj([mode |-> JStr("repokey")]),
     repository |-> JObj([id |-> JStr("dd06"), location |-> JStr("ssh://h/r")]),
     security_dir |-> JStr("/s")]

\* doc with the key inside the object at `outer` dropped, or replaced
DropIn(f, outer, key) == Put(f, outer, JObj(Drop(f[outer].f, key)))
PutIn(f, outer, key, v) == Put(f, outer, JObj(Put(f[outer].f, key, v)))

WrongValues == {JNum("nat", 1), JStr("text"), JNum("neg", 1), JObj([zz |-> JBool(TRUE)])}

InfoFields ==
    {<<"cache", "path">>, <<"cache", "stats">>, <<"encryption", "mode">>,
     <<"repository", "id">>, <<"repository", "location">>}

InfoDocs ==
    {FullInfo}
        \cup {PutIn(FullInfo, "encryption", "mode", JStr(m)) : m \in Modes \cup {"rot13"}}
        \cup {Drop(FullInfo, k) : k \in DOMAIN FullInfo}
        \cup {Put(FullInfo, k, v) : k \in DOMAIN FullInfo, v \in WrongValues}
        \cup {DropIn(FullInfo, p[1], p[2]) : p \in InfoFields}
        \cup {PutIn(FullInfo, p[1], p[2], v) : p \in InfoFields, v \in WrongValues}
        \cup {PutIn(FullInfo, "cache", "stats", JObj(Drop(FullStats.f, c))) :
                c \in {"total_chunks", "unique_size"}}
        \cup {PutIn(FullInfo, "cache", "stats", JObj(Put(FullStats.f, c, v))) :
                c \in {"total_csize", "unique_csize"}, v \in WrongValues \ {JNum("nat", 1)}}
        \cup {Drop(PutIn(FullInfo, "encryption", "mode", JStr("rot13")), "security_dir"),
              Drop(Drop(FullInfo, "repository"), "cache")}

InfoStdouts == {Line(NotJson)} \cup {Line(JObj(d)) : d \in InfoDocs}

BackendInit ==
    /\ call \in {Some(k) : k \in CreateCalls \cup InitCalls \cup InfoCalls}
    /\ bpc = "assemble"
    /\ cmd = None
    /\ child = NoChild
    /\ seen = 0
    /\ ret = None
    /\ DecodeIdle
    /\ RepoIdle
    /\ RunIdle
    /\ CompIdle
    /\ CfgIdle
    /\ LoadIdle
    /\ InitIdle

\* borg.rs 412-445
InitAssemble ==
    /\ bpc = "assemble" /\ call.val.op = "init"
    /\ cmd' = Some(init_command(call.val))
    /\ bpc' = "spawn"
    /\ UNCHANGED <<call, child, seen, ret>>
    /\ UNCHANGED notBackend

\* borg.rs 470-539, no check failing
CreateAssemble ==
    /\ bpc = "assemble" /\ call.val.op = "create"
    /\ create_command(call.val).ok
    /\ cmd' = Some(create_command(call.val).val)
    /\ bpc' = "spawn"
    /\ UNCHANGED <<call, child, seen, ret>>
    /\ UNCHANGED notBackend

\* borg.rs 470-531, one of the checks returning Err
CreateReject ==
    /\ bpc = "assemble" /\ call.val.op = "create"
    /\ ~create_command(call.val).ok
    /\ ret' = Some(create_command(call.val))
    /\ bpc' = "returned"
    /\ UNCHANGED <<call, cmd, child, seen>>
    /\ UNCHANGED notBackend

\* borg.rs 559-570
InfoAssemble ==
    /\ bpc = "assemble" /\ call.val.op = "info"
    /\ cmd' = Some(info_command(call.val))
    /\ bpc' = "output"
    /\ UNCHANGED <<call, child, seen, ret>>
    /\ UNCHANGED notBackend

\* cmd.spawn()? fails (borg.rs 448, 542)
SpawnFails ==
    /\ bpc = "spawn" /\ ~call.val.spawn_ok
    /\ ret' = Some(Result_Err("spawn failed"))
    /\ bpc' = "returned"
    /\ UNCHANGED <<call, cmd, child, seen>>
    /\ UNCHANGED notBackend

\* the child runs but child.stderr.take() is None (borg.rs 450-455, 544-549)
SpawnNoStderr ==
    /\ bpc = "spawn" /\ call.val.spawn_ok /\ ~call.val.stderr_ok
    /\ child' = [child EXCEPT !.st = "running"]
    /\ ret' = Some(Result_Err("No stderr"))
    /\ bpc' = "returned"
    /\ UNCHANGED <<call, cmd, seen>>
    /\ UNCHANGED notBackend

SpawnOk ==
    /\ bpc = "spawn" /\ call.val.spawn_ok /\ call.val.stderr_ok
    /\ child' = [child EXCEPT !.st = "running"]
    /\ bpc' = "stream"
    /\ UNCHANGED <<call, cmd, seen, ret>>
    /\ UNCHANGED notBackend

\* the process ends, with some exit status, and its stderr closes
ChildExit ==
    /\ child.st = "running"
    /\ \E code \in {0, 2} : child' = [child EXCEPT !.st = "exited", !.status = code]
    /\ UNCHANGED <<call, bpc, cmd, seen, ret>>
    /\ UNCHANGED notBackend

\* one iteration of `for event in Events::from(stderr)` (borg.rs 457-459,
\* 551-553): the process wrote a line, the event goes to on_update
StreamEvent ==
    /\ bpc = "stream" /\ child.st = "running"
    /\ seen < MaxStream
    /\ \E item \in RunItems : RunYields[item].tag = "Some"
    /\ seen' = seen + 1
    /\ UNCHANGED <<call, bpc, cmd, child, ret>>
    /\ UNCHANGED notBackend

\* the iterator panics on the line: the call unwinds and returns nothing
StreamPanic ==
    /\ bpc = "stream" /\ child.st = "running"
    /\ seen < MaxStream
    /\ \E item \in RunItems : RunYields[item].tag = "Panic"
    /\ bpc' = "panicked"
    /\ UNCHANGED <<call, cmd, child, seen, ret>>
    /\ UNCHANGED notBackend

\* the iterator ends at the end of stderr and the call returns Ok(())
\* (borg.rs 461, 555): the child is not waited for, its status is not read
StreamEnd ==
    /\ bpc = "stream" /\ child.st = "exited"
    /\ Events_next(Eof).tag = "None"
    /\ ret' = Some(Result_Ok("()"))
    /\ bpc' = "returned"
    /\ UNCHANGED <<call, cmd, child, seen>>
    /\ UNCHANGED notBackend

\* serde_json::from_slice(&output.stdout)?
from_slice(stdout) == from_str(stdout)

\* cmd.output()? and the rest of repo_info (borg.rs 572-580): output() waits
\* for the process and captures what it wrote
InfoOutput ==
    /\ bpc = "output"
    /\ IF ~call.val.spawn_ok
       THEN /\ ret' = Some(Result_Err(<<"spawn failed">>))
            /\ child' = child
       ELSE \E code \in {0, 2}, stdout \in InfoStdouts :
                /\ child' = [st |-> "exited", status |-> code, waited |-> TRUE,
                             stdout |-> Some(stdout)]
                /\ ret' = Some(IF code # 0 THEN Result_Err(<<"stderr of borg">>)
                               ELSE IF ~from_slice(stdout).ok
                               THEN Result_Err(<<"expected value at line 1 column 1">>)
                               ELSE RepoInfo_try_from(from_slice(stdout).value))
    /\ bpc' = "returned"
    /\ UNCHANGED <<call, cmd, seen>>
    /\ UNCHANGED notBackend

BackendNext ==
    \/ InitAssemble
    \/ CreateAssemble
    \/ CreateReject
    \/ InfoAssemble
    \/ SpawnFails
    \/ SpawnNoStderr
    \/ SpawnOk
    \/ ChildExit
    \/ StreamEvent
    \/ StreamPanic
    \/ StreamEnd
    \/ InfoOutput

BackendSpec == BackendInit /\ [][BackendNext]_vars

\* ------------------------------------------------------------------------
\* Properties of the backend calls
\* ------------------------------------------------------------------------
PassVars == {"BORG_PASSPHRASE", "BORG_PASSCOMMAND", "BORG_PASSPHRASE_FD"}

\* the variable that carries a passphrase of this variant, and its value
PassVarOf(passphrase) ==
    CASE passphrase.kind = "Passphrase" -> <<"BORG_PASSPHRASE", <<passphrase.v>>>>
      [] passphrase.kind = "Command" -> <<"BORG_PASSCOMMAND", <<passphrase.cmd>>>>
      [] passphrase.kind = "FileDescriptor" -> <<"BORG_PASSPHRASE_FD", <<"3">>>>

\* C23: the command built for init, create and info sets, for a repo with a
\* passphrase, exactly one of BORG_PASSPHRASE, BORG_PASSCOMMAND and
\* BORG_PASSPHRASE_FD, the one of the passphrase's variant, holding its
\* value, and no argument is that value; for a repo without passphrase it
\* sets none of the three.  No process is spawned without such a command.
C23_PassphraseInEnvOnly ==
    /\ child.st # "none" => cmd.some
    /\ cmd.some =>
        LET passphrase == call.val.repository.passphrase
            set == {e \in cmd.val.envs : e[1] \in PassVars}
        IN  IF passphrase.some
            THEN /\ set = {PassVarOf(passphrase.val)}
                 /\ \A i \in 1..Len(cmd.val.args) :
                        cmd.val.args[i] # PassVarOf(passphrase.val)[2]
            ELSE set = {}

\* the process of a create command for a repo whose passphrase is the
\* descriptor 3 runs with BORG_PASSPHRASE_FD=3
C23_Witness ==
    /\ child.st = "running"
    /\ call.val.op = "create"
    /\ call.val.repository.passphrase = Some(FileDescriptor(3))
    /\ <<"BORG_PASSPHRASE_FD", <<"3">>>> \in cmd.val.envs

\* the file create_archive looks for: an absolute one as it is, a relative
\* one under the first path
Sought(archive, file) ==
    IF is_absolute(file) THEN file ELSE resolve_path(Path_join(archive.paths[1], file))

NotThere(k, file) ==
    file.some /\ ~\E f \in k.files : Path_eq(f, Sought(k.archive, file.val))

Refused(k) ==
    \/ k.archive.paths = <<>>
    \/ NotThere(k, k.archive.pattern_file)
    \/ NotThere(k, k.archive.exclude_file)

\* C24: create_archive returns an error and spawns no process when the path
\* list is empty, or when the pattern file or the exclude file (a relative
\* one taken under the first path) is not an existing file; a process is
\* spawned only when none of these holds.
C24_ChecksBeforeSpawn ==
    call.val.op = "create" =>
        /\ (Refused(call.val) /\ bpc # "assemble") =>
                /\ bpc = "returned"
                /\ ret.some /\ ~ret.val.ok
                /\ child.st = "none"
        /\ child.st # "none" => ~Refused(call.val)

\* the pattern file is there, the exclude file is not: the call has
\* returned the error and nothing runs
C24_Witness ==
    /\ call.val.op = "create"
    /\ call.val.archive.pattern_file.some
    /\ ret = Some(Result_Err("exclude file does not exist"))
    /\ child.st = "none"

\* the archive has several paths and a relative pattern or exclude file
AmbiguousAnchor(archive) ==
    /\ Len(archive.paths) > 1
    /\ \/ archive.pattern_file.some /\ is_relative(archive.pattern_file.val)
       \/ archive.exclude_file.some /\ is_relative(archive.exclude_file.val)

\* C25: when the archive has more than one path and its pattern_file or
\* exclude_file is relative, create_archive returns an error and spawns no
\* process: a relative file is taken under the first path only when there
\* is exactly one path.
C25_AmbiguousAnchorFails ==
    (call.val.op = "create" /\ AmbiguousAnchor(call.val.archive) /\ bpc # "assemble") =>
        /\ bpc = "returned"
        /\ ret.some /\ ~ret.val.ok
        /\ child.st = "none"

\* C26: init_repository and create_archive return an error when the process
\* cannot be spawned, when the child has no stderr handle, and when the
\* process exits with a non-zero status after its events were delivered;
\* they return Ok only after the process was waited for and exited with
\* status 0.
C26_FailuresReturned ==
    (call.val.op \in {"init", "create"} /\ ret.some) =>
        /\ ~call.val.spawn_ok => ~ret.val.ok
        /\ (call.val.spawn_ok /\ ~call.val.stderr_ok) => ~ret.val.ok
        /\ ret.val.ok => child.st = "exited" /\ child.waited /\ child.status = 0

\* the value found in a document by following the keys
RECURSIVE Lookup(_, _)
Lookup(value, keys) ==
    IF keys = <<>> THEN Some(value)
    ELSE IF get(value, Head(keys)).some THEN Lookup(get(value, Head(keys)).val, Tail(keys))
    ELSE None

\* the fields an info document must hold, the type of each and the name an
\* error gives it
RequiredFields ==
    {[keys |-> <<"cache">>, ty |-> "obj", says |-> <<"cache">>],
     [keys |-> <<"cache", "path">>, ty |-> "str", says |-> <<"cache.path">>],
     [keys |-> <<"cache", "stats">>, ty |-> "obj", says |-> <<"cache.stats">>],
     [keys |-> <<"encryption">>, ty |-> "obj", says |-> <<"encryption">>],
     [keys |-> <<"encryption", "mode">>, ty |-> "str", says |-> <<"encryption.mode">>],
     [keys |-> <<"repository", "id">>, ty |-> "str", says |-> <<"repository.id">>],
     [keys |-> <<"repository", "location">>, ty |-> "str",
      says |-> <<"repository.location">>],
     [keys |-> <<"security_dir">>, ty |-> "str", says |-> <<"security_dir">>]}
        \cup {[keys |-> <<"cache", "stats", Counters[i]>>, ty |-> "u64",
               says |-> <<"cache.stats.", Counters[i]>>] : i \in 1..Len(Counters)}

\* the document holds the field with the type it must have
Holds(value, r) ==
    /\ Lookup(value, r.keys).some
    /\ LET v == Lookup(value, r.keys).val
       IN  CASE r.ty = "obj" -> v.t = "obj"
             [] r.ty = "str" -> v.t = "str"
             [] r.ty = "u64" -> v.t = "num" /\ v.cls = "nat"

KnownMode(value) == Lookup(value, <<"encryption", "mode">>).val.s \in Modes

\* repo_info has read a JSON document from a borg that exited with 0
InfoParsed ==
    /\ call.val.op = "info" /\ bpc = "returned"
    /\ child.waited /\ child.status = 0
    /\ from_slice(child.stdout.val).ok

SlashQ == <<"/", "q">>
RemoteH == [user |-> None, host |-> HostH, port |-> None]

\* args.repository: parsed from the command line, so without a passphrase
InitArgRepos == {MkRepo(None, SlashR), MkRepo(None, SlashQ), MkRepo(Some(RemoteH), SlashR)}

\* the repositories of the configured jobs, some with a passphrase
ConfiguredRepos ==
    {[r EXCEPT !.passphrase = p] :
        r \in InitArgRepos \cup {MkRepo(None, <<"/", "r", "/">>)},
        p \in {None, Some(Pass("s"))}}

InitBackups == {<<>>} \cup {<<r>> : r \in ConfiguredRepos}
                \cup {<<MkRepo(None, SlashQ), r>> : r \in ConfiguredRepos}

\* config.backups.iter().map(|(r, _)| r).find(|r| r == &&repo)
find_repo(backups, repo) ==
    IF \E i \in 1..Len(backups) : Repo_eq(backups[i], repo)
    THEN Some(backups[CHOOSE i \in 1..Len(backups) :
                        /\ Repo_eq(backups[i], repo)
                        /\ \A j \in 1..(i - 1) : ~Repo_eq(backups[j], repo)])
    ELSE None

\* what append_backup_config writes (init.rs 69-71)
backup_entry(repo) ==
    <<"\n[[backup]]\nrepository = \"">> \o Repo_to_string(repo) \o <<"\"\n">>

InitCliInit ==
    /\ icli \in {Some([pc |-> "lookup", repo |-> r, exists_already |-> FALSE, backups |-> b,
                       source_ok |-> s, written |-> <<>>]) :
                    r \in InitArgRepos, b \in InitBackups, s \in BOOLEAN}
    /\ BackendIdle
    /\ DecodeIdle
    /\ RepoIdle
    /\ RunIdle
    /\ CompIdle
    /\ CfgIdle
    /\ LoadIdle

\* init.rs 28-39: look the repository up among the configured jobs, take
\* over the passphrase of the first that equals it, and call init_repository
InitLookup ==
    /\ icli.val.pc = "lookup"
    /\ LET backup == find_repo(icli.val.backups, icli.val.repo)
           repo == IF backup.some
                   THEN [icli.val.repo EXCEPT !.passphrase = backup.val.passphrase]
                   ELSE icli.val.repo
       IN  /\ icli' = Some([icli.val EXCEPT !.pc = "call", !.repo = repo,
                                            !.exists_already = backup.some])
           /\ \E s \in BackendSpawns, e \in {"None", "RepoKeyBlake2"} :
                call' = Some([op |-> "init", borg |-> [dry_run |-> FALSE,
                                                       rate_limit |-> [up |-> None, down |-> None]],
                              repository |-> [location |-> Repo_to_string(repo),
                                              passphrase |-> repo.passphrase],
                              encryption |-> e, append_only |-> FALSE, storage_quota |-> None,
                              make_parent_dirs |-> FALSE, spawn_ok |-> s[1],
                              stderr_ok |-> s[2], max_level |-> None])
    /\ bpc' = "assemble"
    /\ UNCHANGED <<cmd, child, seen, ret>>
    /\ UNCHANGED notInit

\* init.rs 48-51: init_repository returned Err
InitFailed ==
    /\ icli.val.pc = "call" /\ bpc = "returned" /\ ~ret.val.ok
    /\ icli' = Some([icli.val EXCEPT !.pc = "exit1"])
    /\ UNCHANGED backendVars
    /\ UNCHANGED notInit

\* init.rs 53-57 with append_backup_config (60-74): the job was not there
InitAppend ==
    /\ icli.val.pc = "call" /\ bpc = "returned" /\ ret.val.ok
    /\ ~icli.val.exists_already
    /\ icli' = Some([icli.val EXCEPT !.pc = "done",
                        !.written = IF icli.val.source_ok
                                    THEN Append(@, backup_entry(icli.val.repo)) ELSE @])
    /\ UNCHANGED backendVars
    /\ UNCHANGED notInit

\* init.rs 53: the job was there already
InitKeep ==
    /\ icli.val.pc = "call" /\ bpc = "returned" /\ ret.val.ok
    /\ icli.val.exists_already
    /\ icli' = Some([icli.val EXCEPT !.pc = "done"])
    /\ UNCHANGED backendVars
    /\ UNCHANGED notInit

InitNext ==
    \/ InitLookup
    \/ InitAssemble
    \/ SpawnFails
    \/ SpawnNoStderr
    \/ SpawnOk
    \/ ChildExit
    \/ StreamEvent
    \/ StreamPanic
    \/ StreamEnd
    \/ InitFailed
    \/ InitAppend
    \/ InitKeep

InitSpec == InitCliInit /\ [][InitNext]_vars

\* the init command has finished
InitOver == icli.val.pc \in {"done", "exit1"}

\* borg was started with its stderr piped, and exited with status 0
InitSucceeded ==
    /\ call.val.spawn_ok /\ call.val.stderr_ok
    /\ child.st = "exited" /\ child.status = 0

Configured(repo) == \E i \in 1..Len(icli.val.backups) : Repo_eq(icli.val.backups[i], repo)

\* C28: when the init command has finished, the configuration file has
\* received one [[backup]] entry with the repository's formatted address
\* exactly when borg initialized the repository and no configured job has
\* an equal repository (the file being writable); when a job names the
\* repository its passphrase was used and nothing was written, and when
\* the initialization failed nothing was written.
C28_AppendsWhenNew ==
    InitOver =>
        /\ icli.val.source_ok =>
            (icli.val.written = <<backup_entry(icli.val.repo)>>
                <=> (InitSucceeded /\ ~Configured(icli.val.repo)))
        /\ Configured(icli.val.repo) =>
            /\ icli.val.written = <<>>
            /\ \E i \in 1..Len(icli.val.backups) :
                /\ Repo_eq(icli.val.backups[i], icli.val.repo)
                /\ call.val.repository.passphrase = icli.val.backups[i].passphrase
        /\ ~InitSucceeded => icli.val.written = <<>>
        /\ Len(icli.val.written) <= 1

SentinelFree(paths) == paths # <<>> /\ \A i \in 1..Len(paths) : paths[i] # Ellipsis

\* resolve has returned Ok(self) for the job
Resolved == cpc \in {"convert", "done"} \/ (cpc = "failed" /\ ~job.val.template.some)

\* C29: once the templates are prepared the default template has a
\* non-empty path list without "..."; every job that resolve returns has no
\* template name left, took its last hop from the default template, and
\* has a non-empty path list without "..."; so the conversion never fails
\* with the missing key "path".
C29_ResolvedJobHasPaths ==
    /\ cpc # "templates" => SentinelFree(Registered("default").paths)
    /\ Resolved =>
        /\ job.val.template = None
        /\ chain # <<>> /\ chain[Len(chain)] = "default"
        /\ SentinelFree(job.val.paths)
    /\ cresult # Some(Result_Err(<<"MissingKey(path)">>))

\* a job declared with path = ["..."] went through a template without
\* paths, which left it with none, and took "~" from the default template
C29_Witness ==
    /\ cpc = "done"
    /\ orig.val.paths = <<Ellipsis>>
    /\ chain = <<"custom", "default">>
    /\ before.val.paths = <<>>
    /\ job.val.paths = <<Tilde>>

\* ------------------------------------------------------------------------
\* ResolveFairSpec: the same parse with the loop of resolve run as the code
\* runs it, one iteration after the other without a limit on the length of
\* the path list, by a single thread: the loop takes its next iteration or
\* returns whenever it can.
\* ------------------------------------------------------------------------
\* one iteration of the loop of resolve (config.rs 200-216), template found
ResolveLoop ==
    /\ cpc = "resolve"
    /\ job.val.template.some
    /\ find_map(templates, job.val.template.val).some
    /\ Len(chain) < MaxHops
    /\ job' = Some(resolve_with(job.val, find_map(templates, job.val.template.val).val))
    /\ before' = job
    /\ chain' = Append(chain, job.val.template.val)
    /\ UNCHANGED <<cpc, templates, orig, cresult>>
    /\ UNCHANGED notCfg

ResolveFairNext ==
    \/ PrepareTemplates
    \/ ResolveLoop
    \/ ResolveMissing
    \/ ResolveDone
    \/ ConvertOk
    \/ ConvertErr

\* the loop of resolve: its next iteration, or its return
ResolveStep == ResolveLoop \/ ResolveMissing \/ ResolveDone

ResolveFairSpec == CfgInit /\ [][ResolveFairNext]_vars /\ WF_cfgVars(ResolveStep)

\* following the template names from this link ends, at a template without
\* a name or at a name that is not declared, within k hops
RECURSIVE Ends(_, _)
Ends(link, k) ==
    IF ~link.some \/ ~IsRegistered(link.val) THEN TRUE
    ELSE IF k = 0 THEN FALSE
    ELSE Ends(Registered(link.val).template, k - 1)

\* no template is met twice on the chain: it ends before more hops than
\* there are templates
Acyclic(config) == Ends(config.template, Len(templates))

\* resolve has returned: Ok(self), or Err(MissingTemplate)
ResolveReturned == cpc \in {"convert", "done", "failed"}

\* C30: resolve returns, a resolved job or MissingTemplate, for every job
\* whose template chain is acyclic; for a job whose chain runs into a cycle
\* it never returns: after every hop the job carries a template name again,
\* that template is declared, and the chain from it is still cyclic.
C30_ResolveTermination ==
    /\ (cpc = "resolve" /\ Acyclic(orig.val)) ~> ResolveReturned
    /\ [](ResolveReturned =>
            \/ cpc \in {"convert", "done"} /\ ~job.val.template.some
            \/ cpc = "failed" /\ cresult.some /\ ~cresult.val.ok)
    /\ [](cpc # "templates" /\ ~Acyclic(orig.val) =>
            /\ ~ResolveReturned
            /\ job.val.template.some /\ IsRegistered(job.val.template.val)
            /\ ~Acyclic(job.val))

\* two templates name each other and the job has gone round the cycle
C30_Witness ==
    /\ cpc = "resolve"
    /\ ~Acyclic(orig.val)
    /\ Len(chain) >= 3
    /\ chain[1] = "custom" /\ chain[2] = "other" /\ chain[3] = "custom"

====
